---- MODULE Spec2Model ----
(***************************************************************************)
(* Task lifecycle and reminder engine of the Todo-App backend.             *)
(*                                                                         *)
(* The store is the relational store that app/database.py init_db builds   *)
(* from app/models.py: rows get their id from a sequence that never hands  *)
(* out an id twice, and a row has exactly the columns its model class      *)
(* declares.  Times are minutes since an arbitrary origin; Python None is  *)
(* the integer None for optional integers and datetimes, NoPattern for the *)
(* optional recurrence pattern, and the empty set for an optional bool.    *)
(***************************************************************************)
EXTENDS Integers, Sequences, FiniteSets, TLC

VARIABLES
    tasks,          \* tasks table: id -> row
    reminders,      \* reminders table: id -> row
    nextTaskId,     \* tasks.id sequence
    nextReminderId, \* reminders.id sequence
    now,            \* datetime.utcnow()
    last,           \* the handler call that ran last: its inputs, status and published events
    dispatched,     \* reminder id -> number of reminder.due events published for it
    reqs,           \* update_task requests in flight: slot -> position and locals
    sweep,          \* the sweeper tick in flight: position and the rows it selected
    calls,          \* number of calls started so far (a move of the clock counts as one)
    users,          \* users table: the ids of the registered users
    tags,           \* tags table: id -> row
    task_tags,      \* task_tags table: set of rows
    nextTagId,      \* tags.id sequence
    kafka,          \* the event producer's connection: "off", "up" or "down"
    checker,        \* the ReminderChecker singleton and the check loops it has created
    stamps,         \* created_at and updated_at of the tasks, and the latest clock reading
    todo            \* the command-line task manager: its globals tasks and next_id

vars == <<tasks, reminders, nextTaskId, nextReminderId, now, last, dispatched, reqs, sweep, calls,
          users, tags, task_tags, nextTagId, kafka, checker, stamps, todo>>

----------------------------------------------------------------------------
(* Bounds *)

MaxTasks == 2
MaxReminders == 3
MaxClock == 1
MaxCalls == 5
MaxChain == 3
MaxTags == 2
MaxLoops == 3
MaxStops == 2
TitleMax == 200
DescriptionMax == 1000
MaxStamp == 5
MaxIds == 3
CliTitleMax == 200
CliDescriptionMax == 1000

----------------------------------------------------------------------------
(* Values *)

None == -1
NoPattern == "null"
Day == 1440
Lead == Day \div 24
Users == {"u1", "u2"}

\* datetime values a request may carry, and the instants the clock visits
D1 == Day
D2 == 2 * Day
Instants == {d * Day - m : d \in 0..MaxClock, m \in {0, Lead}} \cap Nat

\* Python truthiness of an Optional[int] / Optional[datetime] / Optional[str]
TruthyInt(x) == x # None /\ x # 0
TruthyDate(x) == x # None
TruthyStr(s) == s # NoPattern /\ s # ""

\* text is a sequence of characters; NoText is Python None for an optional text
NoText == <<"null">>
TruthyText(x) == x # NoText /\ x # <<>>

\* str.strip(): leading and trailing blanks removed
RECURSIVE LStrip(_)
LStrip(x) == IF x # <<>> /\ Head(x) = " " THEN LStrip(Tail(x)) ELSE x

RECURSIVE RStrip(_)
RStrip(x) == IF x # <<>> /\ x[Len(x)] = " " THEN RStrip(SubSeq(x, 1, Len(x) - 1)) ELSE x

Strip(x) == RStrip(LStrip(x))

----------------------------------------------------------------------------
(* Columns of the Reminder model class *)

ReminderFields == {"id", "user_id", "task_id", "remind_at", "sent", "created_at"}

\* SQLModel refuses an attribute the model class does not declare:
\* assignment raises ValueError, class-level access raises AttributeError
HasField(f) == f \in ReminderFields

----------------------------------------------------------------------------
(* Events and the record of the last call *)

Event(topic, tid) == [topic |-> topic, task_id |-> tid]

\* publish with "await self._producer.send_and_wait(topic, event)" outside any try
publishUnguarded(k) ==
    IF k = "off" THEN "printed" ELSE IF k = "up" THEN "sent" ELSE "raised"

\* EventProducer.publish, for a sink that is "off" (self._producer is None),
\* "up" (send_and_wait returns) or "down" (send_and_wait raises): "if not
\* self._producer: print(...); return", "try: await ...send_and_wait(...)
\* except Exception as e: print(...)"
publish(k) ==
    IF k = "off" THEN "printed" ELSE IF k = "up" THEN "sent" ELSE "logged"

\* the status of a request that awaits the publishing of evs
Answer(k, evs) == IF evs # <<>> /\ publish(k) = "raised" THEN "sink_error" ELSE "ok"

\* a TaskUpdate with every field left out; an optional bool or list is the
\* empty set when left out and the set holding its value when supplied
NoPatch ==
    [title |-> NoText, description |-> NoText, completed |-> {},
     due_date |-> None, reminder_minutes |-> None, priority |-> NoPattern,
     is_recurring |-> {}, recurrence_pattern |-> NoPattern,
     recurrence_interval |-> None, recurrence_end_date |-> None, tag_ids |-> {}]

\* op, task, status and events describe the call; before (the completed flag
\* the call found), twice (the call before was a successful toggle of the same
\* task), ids (the tag_ids of a create_task body), patch and spawned (id of the follow-up task, 0 for none) are kept
\* for stating properties
Query(status, priority) ==
    [status |-> status, priority |-> priority, sort_by |-> "created_at", sort_order |-> "desc"]

\* "status: str = Query("all", ...)", "priority: Optional[str] = Query(None, ...)"
NoQuery == Query("all", NoPattern)

Call(op, tid, status, events) ==
    [op |-> op, task |-> tid, status |-> status, before |-> FALSE, twice |-> FALSE,
     patch |-> NoPatch, spawned |-> 0, events |-> events, user |-> "none", caller |-> "none",
     ids |-> <<>>, query |-> NoQuery]

\* the record of a request that passed "if user_id != current_user.id": the
\* user_id of its path is the authenticated user
CallBy(uid, op, tid, status, events) ==
    [Call(op, tid, status, events) EXCEPT !.user = uid, !.caller = uid]

NoCall == Call("none", 0, "ok", <<>>)

----------------------------------------------------------------------------
(* Rows *)

NewTask(uid, in) ==
    [user_id |-> uid,
     title |-> Strip(in.title),
     description |-> IF TruthyText(in.description) THEN Strip(in.description) ELSE NoText,
     priority |-> in.priority,
     completed |-> FALSE,
     due_date |-> in.due_date,
     reminder_minutes |-> in.reminder_minutes,
     is_recurring |-> in.is_recurring,
     recurrence_pattern |-> in.recurrence_pattern,
     recurrence_interval |-> in.recurrence_interval,
     recurrence_end_date |-> in.recurrence_end_date,
     parent_task_id |-> None]

NewReminder(uid, tid, at) ==
    [user_id |-> uid, task_id |-> tid, remind_at |-> at, sent |-> FALSE]

UnsentOf(rems, tid) == {r \in DOMAIN rems : rems[r].task_id = tid /\ ~rems[r].sent}

Remove(f, ks) == [k \in DOMAIN f \ ks |-> f[k]]

\* "if task.due_date and task.reminder_minutes:"
WantsReminder(t) == TruthyDate(t.due_date) /\ TruthyInt(t.reminder_minutes)

\* "remind_at = task.due_date - timedelta(minutes=task.reminder_minutes)"
RemindAt(t) == t.due_date - t.reminder_minutes

\* "if task.due_date and task.reminder_minutes: ... session.add(reminder); session.commit()"
AddReminder(rems, rid, tid, t) ==
    IF WantsReminder(t)
    THEN rems @@ (rid :> NewReminder(t.user_id, tid, RemindAt(t)))
    ELSE rems

\* rows of task_tags
Link(tid, g) == [task_id |-> tid, tag_id |-> g]

LinksOf(links, tid) == {l \in links : l.task_id = tid}

\* the tags looked up by id alone
TagsOfAnyOwner(tgs, uid, ids) == {g \in {ids[i] : i \in DOMAIN ids} : g \in DOMAIN tgs}

\* "tag = ...where(Tag.id == tag_id, Tag.user_id == user_id).first(); if tag:"
OwnTags(tgs, uid, ids) ==
    {g \in {ids[i] : i \in DOMAIN ids} : g \in DOMAIN tgs /\ tgs[g].user_id = uid}

\* two TaskTag rows with the same (task_id, tag_id), the primary key, are
\* added when an id of the caller's own tags comes twice in the list: the
\* commit raises IntegrityError
Clash(tgs, uid, ids) ==
    \E i, j \in DOMAIN ids : i < j /\ ids[i] = ids[j] /\ ids[i] \in OwnTags(tgs, uid, ids)

\* "for tag_id in task_data.tag_ids: ... session.add(TaskTag(task_id=task.id, tag_id=tag_id))"
AddLinks(links, tgs, uid, tid, ids) == links \cup {Link(tid, g) : g \in OwnTags(tgs, uid, ids)}

----------------------------------------------------------------------------
(* Requests *)

CreateInput(d, m, rec, pat) ==
    [title |-> <<"a">>, description |-> NoText, priority |-> "none",
     due_date |-> d, reminder_minutes |-> m, is_recurring |-> rec,
     recurrence_pattern |-> pat, recurrence_interval |-> None,
     recurrence_end_date |-> None, tag_ids |-> <<>>]

CreateInputs ==
    { CreateInput(None, None, FALSE, NoPattern),
      CreateInput(D1, None, FALSE, NoPattern),
      CreateInput(D1, 0, FALSE, NoPattern),
      CreateInput(D1, Lead, FALSE, NoPattern),
      CreateInput(D1, Lead, TRUE, "daily") }

Patch(c, d, m) == [NoPatch EXCEPT !.completed = c, !.due_date = d, !.reminder_minutes = m]

UpdatePatches ==
    { Patch({TRUE}, None, None),
      Patch({FALSE}, None, None),
      Patch({}, D2, None),
      Patch({}, None, 0),
      Patch({}, None, Lead) }

\* the request bodies of the overlapping requests
ConcInputs ==
    { CreateInput(D1, None, FALSE, NoPattern),
      CreateInput(D1, Lead, FALSE, NoPattern) }

ConcPatches ==
    { Patch({TRUE}, None, None),
      Patch({}, D2, None),
      Patch({}, None, Lead) }

Slots == {"a", "b"}

----------------------------------------------------------------------------
Init ==
    /\ tasks = <<>>
    /\ reminders = <<>>
    /\ nextTaskId = 1
    /\ nextReminderId = 1
    /\ now = 0
    /\ last = NoCall
    /\ dispatched = [r \in 1..MaxReminders |-> 0]
    /\ reqs = <<>>
    /\ sweep = [pc |-> "idle", batch |-> <<>>, at |-> 0, polled |-> FALSE]
    /\ calls = 0
    /\ users = {"u1"}
    /\ tags = <<>>
    /\ task_tags = {}
    /\ nextTagId = 1
    /\ kafka = "off"
    /\ checker = [running |-> FALSE, task |-> 0, loops |-> <<>>, stops |-> <<>>, halted |-> FALSE,
                  beat |-> FALSE, errs |-> 0]
    /\ stamps = [clock |-> 0, rows |-> <<>>]
    /\ todo = [tasks |-> <<>>, next_id |-> 1, issued |-> <<>>,
               result |-> [op |-> "none", ok |-> TRUE, id |-> 0]]

Found(uid, tid) == tid \in DOMAIN tasks /\ tasks[tid].user_id = uid

\* a text of n characters c
Run(c, n) == [i \in 1..n |-> c]

\* "Field(min_length=lo, max_length=hi)" on a text that was supplied
ValidText(x, lo, hi) == x = NoText \/ (Len(x) >= lo /\ Len(x) <= hi)

\* "Field(ge=lo)" on an integer that was supplied
ValidInt(x, lo) == x = None \/ x >= lo

\* the constraints TaskCreate and TaskUpdate declare, each on one field
ValidFields(in) ==
    /\ ValidText(in.title, 1, TitleMax)
    /\ ValidText(in.description, 0, DescriptionMax)
    /\ ValidInt(in.reminder_minutes, 0)
    /\ ValidInt(in.recurrence_interval, 1)

\* "return get_task_with_tags(task, session)": TaskResponse inherits the
\* constraints of TaskBase on title and description, so a row that does not
\* meet them makes the route answer 500 after everything was stored and
\* published
get_task_with_tags(t, status) ==
    IF ValidText(t.title, 1, TitleMax) /\ ValidText(t.description, 0, DescriptionMax)
    THEN status
    ELSE "error"

\* the request body fails validation: 422, before the route runs
Rejected(uid, op, tid) ==
    /\ last' = CallBy(uid, op, tid, "invalid", <<>>)
    /\ UNCHANGED <<tasks, reminders, nextTaskId, nextReminderId, task_tags>>

\* POST /{user_id}/tasks, for a request body among inputs and ids up to cap
CreateTask(inputs, cap) ==
    \E uid \in users, in \in inputs :
        LET tid == nextTaskId
            t == NewTask(uid, in)
        IN /\ nextTaskId <= cap
           /\ IF ~ValidFields(in)
              THEN Rejected(uid, "create_task", 0)
              ELSE IF Clash(tags, uid, in.tag_ids)
              THEN /\ tasks' = tasks @@ (tid :> t)
                   /\ nextTaskId' = nextTaskId + 1
                   /\ last' = [CallBy(uid, "create_task", tid, "error", <<>>)
                                 EXCEPT !.ids = in.tag_ids]
                   /\ UNCHANGED <<reminders, nextReminderId, task_tags>>
              ELSE /\ WantsReminder(t) => nextReminderId <= MaxReminders
                   /\ tasks' = tasks @@ (tid :> t)
                   /\ nextTaskId' = nextTaskId + 1
                   /\ reminders' = AddReminder(reminders, nextReminderId, tid, t)
                   /\ nextReminderId' =
                          IF WantsReminder(t) THEN nextReminderId + 1 ELSE nextReminderId
                   /\ last' = [CallBy(uid, "create_task", tid,
                                      get_task_with_tags(t,
                                          Answer(kafka, <<Event("task.created", tid)>>)),
                                      <<Event("task.created", tid)>>)
                                 EXCEPT !.ids = in.tag_ids]
                   /\ task_tags' = AddLinks(task_tags, tags, uid, tid, in.tag_ids)
           /\ UNCHANGED <<now, dispatched, reqs, sweep>>
           /\ UNCHANGED <<tags, nextTagId>>

create_task == CreateTask(CreateInputs, MaxTasks)

----------------------------------------------------------------------------
(* update_task *)

\* completed written without the "is not None" test
ApplyPatchOverwritingCompleted(t, p) ==
    [t EXCEPT !.completed = TRUE \in p.completed,
              !.title = IF p.title # NoText THEN Strip(p.title) ELSE @,
              !.description = IF p.description = NoText THEN @
                              ELSE IF TruthyText(p.description) THEN Strip(p.description)
                              ELSE NoText,
              !.due_date = IF p.due_date # None THEN p.due_date ELSE @,
              !.reminder_minutes = IF p.reminder_minutes # None THEN p.reminder_minutes ELSE @,
              !.priority = IF p.priority # NoPattern THEN p.priority ELSE @,
              !.is_recurring = IF p.is_recurring # {} THEN TRUE \in p.is_recurring ELSE @,
              !.recurrence_pattern = IF p.recurrence_pattern # NoPattern
                                     THEN p.recurrence_pattern ELSE @,
              !.recurrence_interval = IF p.recurrence_interval # None
                                      THEN p.recurrence_interval ELSE @,
              !.recurrence_end_date = IF p.recurrence_end_date # None
                                      THEN p.recurrence_end_date ELSE @]

\* "if task_data.X is not None: task.X = task_data.X"
ApplyPatch(t, p) ==
    [t EXCEPT !.completed = IF p.completed # {} THEN TRUE \in p.completed ELSE @,
              !.title = IF p.title # NoText THEN Strip(p.title) ELSE @,
              !.description = IF p.description = NoText THEN @
                              ELSE IF TruthyText(p.description) THEN Strip(p.description)
                              ELSE NoText,
              !.due_date = IF p.due_date # None THEN p.due_date ELSE @,
              !.reminder_minutes = IF p.reminder_minutes # None THEN p.reminder_minutes ELSE @,
              !.priority = IF p.priority # NoPattern THEN p.priority ELSE @,
              !.is_recurring = IF p.is_recurring # {} THEN TRUE \in p.is_recurring ELSE @,
              !.recurrence_pattern = IF p.recurrence_pattern # NoPattern
                                     THEN p.recurrence_pattern ELSE @,
              !.recurrence_interval = IF p.recurrence_interval # None
                                      THEN p.recurrence_interval ELSE @,
              !.recurrence_end_date = IF p.recurrence_end_date # None
                                      THEN p.recurrence_end_date ELSE @]

\* "if task_data.due_date is not None or task_data.reminder_minutes is not None"
TouchesReminder(p) == p.due_date # None \/ p.reminder_minutes # None

\* what ".first()" may return for the task's unsent reminders: one row, or nothing
FirstUnsent(rems, tid) ==
    IF UnsentOf(rems, tid) = {} THEN {{}} ELSE {{r} : r \in UnsentOf(rems, tid)}

\* the new reminder without deleting the one found
ReconcileKeepingOld(rems, gone, rid, tid, t) == AddReminder(rems, rid, tid, t)

\* "session.delete(existing_reminder); session.commit()", then the new reminder
Reconcile(rems, gone, rid, tid, t) == AddReminder(Remove(rems, gone), rid, tid, t)

\* "if task_data.tag_ids is not None:" the task's links are deleted and the
\* links to the tags named are added
PatchIds(p) == CHOOSE ids \in p.tag_ids : TRUE

Retag(links, tgs, uid, tid, p) ==
    IF p.tag_ids = {} THEN links
    ELSE AddLinks(links \ LinksOf(links, tid), tgs, uid, tid, PatchIds(p))

\* PUT /{user_id}/tasks/{task_id}, run without interruption, for a request
\* body among patches
UpdateTask(patches) ==
    \E uid \in users, tid \in 1..MaxTasks, p \in patches :
        /\ IF ~ValidFields(p)
           THEN /\ last' = [CallBy(uid, "update_task", tid, "invalid", <<>>) EXCEPT !.patch = p]
                /\ UNCHANGED <<tasks, reminders, nextReminderId, task_tags>>
           ELSE IF ~Found(uid, tid)
           THEN /\ last' = CallBy(uid, "update_task", tid, "not_found", <<>>)
                /\ UNCHANGED <<tasks, reminders, nextReminderId, task_tags>>
           ELSE IF p.tag_ids # {} /\ Clash(tags, uid, PatchIds(p))
           THEN /\ tasks' = [tasks EXCEPT ![tid] = ApplyPatch(tasks[tid], p)]
                /\ task_tags' = task_tags \ LinksOf(task_tags, tid)
                /\ last' = [CallBy(uid, "update_task", tid, "error", <<>>)
                              EXCEPT !.patch = p, !.before = tasks[tid].completed]
                /\ UNCHANGED <<reminders, nextReminderId>>
           ELSE LET t == ApplyPatch(tasks[tid], p)
                    insert == TouchesReminder(p) /\ WantsReminder(t)
                IN /\ insert => nextReminderId <= MaxReminders
                   /\ tasks' = [tasks EXCEPT ![tid] = t]
                   /\ IF TouchesReminder(p)
                      THEN \E gone \in FirstUnsent(reminders, tid) :
                               reminders' = Reconcile(reminders, gone, nextReminderId, tid, t)
                      ELSE reminders' = reminders
                   /\ nextReminderId' = IF insert THEN nextReminderId + 1 ELSE nextReminderId
                   /\ task_tags' = Retag(task_tags, tags, uid, tid, p)
                   /\ last' = [CallBy(uid, "update_task", tid,
                                      get_task_with_tags(t,
                                          Answer(kafka, <<Event("task.updated", tid)>>)),
                                      <<Event("task.updated", tid)>>)
                                 EXCEPT !.patch = p, !.before = tasks[tid].completed]
        /\ UNCHANGED <<nextTaskId, now, dispatched, reqs, sweep>>
        /\ UNCHANGED <<tags, nextTagId>>

update_task == UpdateTask(UpdatePatches)

----------------------------------------------------------------------------
(* Recurrence and toggle_complete *)

NextDue(t) ==
    CASE t.recurrence_pattern = "daily" -> t.due_date + Day
      [] t.recurrence_pattern = "weekly" -> t.due_date + 7 * Day
      [] t.recurrence_pattern = "monthly" -> t.due_date + 30 * Day
      [] t.recurrence_pattern = "yearly" -> t.due_date + 365 * Day
      [] t.recurrence_pattern = "custom" /\ TruthyInt(t.recurrence_interval) ->
             t.due_date + t.recurrence_interval * Day
      [] OTHER -> t.due_date

\* the end date compared with >= : the occurrence on the end date is dropped
HasNextBeforeEnd(t) ==
    /\ t.is_recurring /\ TruthyStr(t.recurrence_pattern)
    /\ TruthyDate(t.due_date)
    /\ ~(TruthyDate(t.recurrence_end_date) /\ NextDue(t) >= t.recurrence_end_date)

\* create_next_recurring_task returns a task (TRUE) or None (FALSE)
HasNext(t) ==
    /\ t.is_recurring /\ TruthyStr(t.recurrence_pattern)
    /\ TruthyDate(t.due_date)
    /\ ~(TruthyDate(t.recurrence_end_date) /\ NextDue(t) > t.recurrence_end_date)

NextTask(t, tid) ==
    [user_id |-> t.user_id,
     title |-> t.title,
     description |-> t.description,
     priority |-> t.priority,
     completed |-> FALSE,
     due_date |-> NextDue(t),
     reminder_minutes |-> t.reminder_minutes,
     is_recurring |-> TRUE,
     recurrence_pattern |-> t.recurrence_pattern,
     recurrence_interval |-> t.recurrence_interval,
     recurrence_end_date |-> t.recurrence_end_date,
     parent_task_id |-> tid]

\* the follow-up without the source's tags
CopyNoLinks(links, tid, child) == links

\* "for task_tag in task.task_tags: ... TaskTag(task_id=new_task.id, tag_id=task_tag.tag_id)"
CopyLinks(links, tid, child) == links \cup {Link(child, l.tag_id) : l \in LinksOf(links, tid)}

\* a one-way "mark complete"
ToggledToComplete(c) == TRUE

\* "task.completed = not task.completed"
Toggled(c) == ~c

\* the follow-up on every toggle of a recurring task
SpawnsOnAnyToggle(was_incomplete, t) == t.is_recurring

\* "if was_incomplete and task.completed and task.is_recurring"
SpawnsOnToggle(was_incomplete, t) == was_incomplete /\ t.completed /\ t.is_recurring

\* the event on every toggle
CompletionEventsAlways(t, tid) == <<Event("task.completed", tid)>>

\* "if task.completed: await event_producer.task_completed(...)"
CompletionEvents(t, tid) == IF t.completed THEN <<Event("task.completed", tid)>> ELSE <<>>

\* PATCH /{user_id}/tasks/{task_id}/complete, run without interruption, for
\* task ids up to cap
ToggleComplete(cap) ==
    \E uid \in users, tid \in 1..cap :
        /\ IF ~Found(uid, tid)
           THEN /\ last' = CallBy(uid, "toggle_complete", tid, "not_found", <<>>)
                /\ UNCHANGED <<tasks, reminders, nextTaskId, nextReminderId, task_tags>>
           ELSE LET was_incomplete == ~tasks[tid].completed
                    t == [tasks[tid] EXCEPT !.completed = Toggled(@)]
                    spawn == SpawnsOnToggle(was_incomplete, t) /\ HasNext(t)
                    child == NextTask(t, tid)
                    remind == spawn /\ WantsReminder(child)
                IN /\ spawn => nextTaskId <= cap
                   /\ remind => nextReminderId <= MaxReminders
                   /\ tasks' = IF spawn
                               THEN [tasks EXCEPT ![tid] = t] @@ (nextTaskId :> child)
                               ELSE [tasks EXCEPT ![tid] = t]
                   /\ nextTaskId' = IF spawn THEN nextTaskId + 1 ELSE nextTaskId
                   /\ reminders' = IF spawn
                                   THEN AddReminder(reminders, nextReminderId, nextTaskId, child)
                                   ELSE reminders
                   /\ nextReminderId' = IF remind THEN nextReminderId + 1 ELSE nextReminderId
                   /\ task_tags' = IF spawn
                                   THEN CopyLinks(task_tags, tid, nextTaskId)
                                   ELSE task_tags
                   /\ last' = [CallBy(uid, "toggle_complete", tid,
                                      get_task_with_tags(t, Answer(kafka, CompletionEvents(t, tid))),
                                      CompletionEvents(t, tid))
                                 EXCEPT !.before = tasks[tid].completed,
                                        !.twice = (last.op = "toggle_complete" /\ last.status = "ok"
                                                   /\ last.task = tid),
                                        !.spawned = IF spawn THEN nextTaskId ELSE 0]
        /\ UNCHANGED <<now, dispatched, reqs, sweep>>
        /\ UNCHANGED <<tags, nextTagId>>

toggle_complete == ToggleComplete(MaxTasks)

----------------------------------------------------------------------------
(* delete_task and the tool server *)

\* rows whose foreign key points at task tid
Referencing(tid) ==
    \/ \E r \in DOMAIN reminders : reminders[r].task_id = tid
    \/ \E c \in DOMAIN tasks : tasks[c].parent_task_id = tid

\* DELETE /{user_id}/tasks/{task_id}: the event goes out first, then the row
\* is deleted.  The Task model cascades to task_tags only and the foreign
\* keys reminders.task_id and tasks.parent_task_id declare no ON DELETE
\* action: rows that reference the task stay behind (a store that does not
\* enforce the reference) or make the store reject the delete (a store that
\* enforces it).
delete_task ==
    \E uid \in users, tid \in 1..MaxTasks :
        /\ IF ~Found(uid, tid)
           THEN /\ last' = CallBy(uid, "delete_task", tid, "not_found", <<>>)
                /\ UNCHANGED <<tasks, task_tags>>
           ELSE IF Answer(kafka, <<Event("task.deleted", tid)>>) # "ok"
           THEN /\ last' = CallBy(uid, "delete_task", tid,
                                  Answer(kafka, <<Event("task.deleted", tid)>>),
                                  <<Event("task.deleted", tid)>>)
                /\ UNCHANGED <<tasks, task_tags>>
           ELSE \/ /\ tasks' = Remove(tasks, {tid})
                   /\ task_tags' = task_tags \ LinksOf(task_tags, tid)
                   /\ last' = CallBy(uid, "delete_task", tid, "ok", <<Event("task.deleted", tid)>>)
                \/ /\ Referencing(tid)
                   /\ UNCHANGED <<tasks, task_tags>>
                   /\ last' = CallBy(uid, "delete_task", tid, "error", <<Event("task.deleted", tid)>>)
        /\ UNCHANGED <<reminders, nextTaskId, nextReminderId, now, dispatched, reqs, sweep>>
        /\ UNCHANGED <<tags, nextTagId>>

\* complete_task of the tool server (the chat agent's _execute_complete_task
\* does the same): "task.completed = True"
handle_complete_task ==
    \E uid \in users, tid \in 1..MaxTasks :
        /\ IF ~Found(uid, tid)
           THEN /\ last' = Call("handle_complete_task", tid, "not_found", <<>>)
                /\ UNCHANGED tasks
           ELSE /\ tasks' = [tasks EXCEPT ![tid].completed = TRUE]
                /\ last' = [Call("handle_complete_task", tid, "ok", <<>>)
                              EXCEPT !.before = tasks[tid].completed]
        /\ UNCHANGED <<reminders, nextTaskId, nextReminderId, now, dispatched, reqs, sweep>>
        /\ UNCHANGED <<tags, task_tags, nextTagId>>

\* "Task(user_id=user_id, title=title, description=description,
\* completed=False)": the other columns take the defaults of the Task class
ToolTask(uid, title, description) ==
    [user_id |-> uid,
     title |-> title,
     description |-> description,
     priority |-> "none",
     completed |-> FALSE,
     due_date |-> None,
     reminder_minutes |-> None,
     is_recurring |-> FALSE,
     recurrence_pattern |-> NoPattern,
     recurrence_interval |-> None,
     recurrence_end_date |-> None,
     parent_task_id |-> None]

\* the titles and descriptions a tool call carries: no schema constrains them
ToolTitles == { <<>>, Run("a", TitleMax + 1) }
ToolTexts == { NoText, <<"d">> }

\* "title: str = Field(max_length=200)" of the Task table declares the column
\* VARCHAR(200): a store that enforces the declared length rejects the write
\* of a longer title, a store that ignores it takes the title as it is
TooLong(title) == title # NoText /\ Len(title) > TitleMax

\* add_task of the tool server (the chat agent's _execute_add_task does the
\* same): the user is looked up, the row is stored with the title as given,
\* without reminder, link or event; an INSERT the store rejects is caught by
\* "except Exception" and answered as an error, with no row stored
handle_add_task ==
    \E uid \in Users, title \in ToolTitles, description \in {NoText} :
        /\ IF uid \notin users
           THEN /\ last' = Call("handle_add_task", 0, "not_found", <<>>)
                /\ UNCHANGED <<tasks, nextTaskId>>
           ELSE /\ nextTaskId <= MaxTasks
                /\ \/ /\ tasks' = tasks @@ (nextTaskId :> ToolTask(uid, title, description))
                      /\ nextTaskId' = nextTaskId + 1
                      /\ last' = [Call("handle_add_task", nextTaskId, "ok", <<>>)
                                    EXCEPT !.user = uid]
                   \/ /\ TooLong(title)
                      /\ UNCHANGED <<tasks, nextTaskId>>
                      /\ last' = [Call("handle_add_task", 0, "error", <<>>) EXCEPT !.user = uid]
        /\ UNCHANGED <<reminders, nextReminderId, now, dispatched, reqs, sweep>>
        /\ UNCHANGED <<tags, task_tags, nextTagId>>

\* update_task of the tool server: "if new_title is not None: task.title =
\* new_title; if new_description is not None: task.description =
\* new_description", committed without event.  The chat agent's
\* _execute_update_task does the same, refuses a call that carries neither
\* and sets updated_at.  An UPDATE the store rejects is caught by "except
\* Exception" and answered as an error, with the row as it was
handle_update_task ==
    \E uid \in users, tid \in 1..MaxTasks, agent \in BOOLEAN,
       title \in {NoText, Run("a", TitleMax + 1)}, description \in ToolTexts :
        /\ IF agent /\ title = NoText /\ description = NoText
           THEN /\ last' = [Call("handle_update_task", tid, "invalid", <<>>) EXCEPT !.user = uid]
                /\ UNCHANGED tasks
           ELSE IF ~Found(uid, tid)
           THEN /\ last' = [Call("handle_update_task", tid, "not_found", <<>>) EXCEPT !.user = uid]
                /\ UNCHANGED tasks
           ELSE \/ /\ tasks' = [tasks EXCEPT
                                   ![tid].title = IF title # NoText THEN title ELSE @,
                                   ![tid].description =
                                       IF description # NoText THEN description ELSE @]
                   /\ last' = [Call("handle_update_task", tid, "ok", <<>>) EXCEPT !.user = uid]
                \/ /\ TooLong(title)
                   /\ UNCHANGED tasks
                   /\ last' = [Call("handle_update_task", tid, "error", <<>>)
                                 EXCEPT !.user = uid]
        /\ UNCHANGED <<reminders, nextTaskId, nextReminderId, now, dispatched, reqs, sweep>>
        /\ UNCHANGED <<tags, task_tags, nextTagId>>

\* delete_task of the tool server (the chat agent's _execute_delete_task does
\* the same): "session.delete(task); session.commit()" without event; the
\* rows that reference the task stay behind or make the store reject the
\* delete, as in the route
handle_delete_task ==
    \E uid \in users, tid \in 1..MaxTasks :
        /\ IF ~Found(uid, tid)
           THEN /\ last' = [Call("handle_delete_task", tid, "not_found", <<>>) EXCEPT !.user = uid]
                /\ UNCHANGED <<tasks, task_tags>>
           ELSE \/ /\ tasks' = Remove(tasks, {tid})
                   /\ task_tags' = task_tags \ LinksOf(task_tags, tid)
                   /\ last' = [Call("handle_delete_task", tid, "ok", <<>>) EXCEPT !.user = uid]
                \/ /\ Referencing(tid)
                   /\ UNCHANGED <<tasks, task_tags>>
                   /\ last' = [Call("handle_delete_task", tid, "error", <<>>) EXCEPT !.user = uid]
        /\ UNCHANGED <<reminders, nextTaskId, nextReminderId, now, dispatched, reqs, sweep>>
        /\ UNCHANGED <<tags, nextTagId>>

----------------------------------------------------------------------------
(* Tags *)

TagNames == {<<"h">>, <<"h", " ">>, <<"w">>}

FoundTag(uid, g) == g \in DOMAIN tags /\ tags[g].user_id = uid

\* "select(Tag).where(Tag.user_id == user_id, Tag.name == tag_data.name.strip(), ...)"
NameTaken(uid, name, but) ==
    \E g \in DOMAIN tags \ but : tags[g].user_id = uid /\ tags[g].name = Strip(name)

\* POST /{user_id}/tags
create_tag ==
    \E uid \in users, name \in TagNames :
        /\ nextTagId <= MaxTags
        /\ IF NameTaken(uid, name, {})
           THEN /\ last' = CallBy(uid, "create_tag", 0, "bad_request", <<>>)
                /\ UNCHANGED <<tags, nextTagId>>
           ELSE /\ tags' = tags @@ (nextTagId :> [user_id |-> uid, name |-> Strip(name)])
                /\ nextTagId' = nextTagId + 1
                /\ last' = CallBy(uid, "create_tag", nextTagId, "ok", <<>>)
        /\ UNCHANGED <<tasks, reminders, nextTaskId, nextReminderId, now, dispatched, reqs, sweep,
                       task_tags>>

\* PUT /{user_id}/tags/{tag_id} with a name
update_tag ==
    \E uid \in users, g \in 1..MaxTags, name \in TagNames :
        /\ IF ~FoundTag(uid, g)
           THEN /\ last' = CallBy(uid, "update_tag", g, "not_found", <<>>)
                /\ UNCHANGED tags
           ELSE IF NameTaken(uid, name, {g})
           THEN /\ last' = CallBy(uid, "update_tag", g, "bad_request", <<>>)
                /\ UNCHANGED tags
           ELSE /\ tags' = [tags EXCEPT ![g].name = Strip(name)]
                /\ last' = CallBy(uid, "update_tag", g, "ok", <<>>)
        /\ UNCHANGED <<tasks, reminders, nextTaskId, nextReminderId, now, dispatched, reqs, sweep,
                       task_tags, nextTagId>>

\* the tag deleted and its links left behind
UnlinkNothing(links, g) == links

\* Tag.task_tags has cascade_delete: the links of the tag go with it
Unlink(links, g) == {l \in links : l.tag_id # g}

\* DELETE /{user_id}/tags/{tag_id}
delete_tag ==
    \E uid \in users, g \in 1..MaxTags :
        /\ IF ~FoundTag(uid, g)
           THEN /\ last' = CallBy(uid, "delete_tag", g, "not_found", <<>>)
                /\ UNCHANGED <<tags, task_tags>>
           ELSE /\ tags' = Remove(tags, {g})
                /\ task_tags' = Unlink(task_tags, g)
                /\ last' = CallBy(uid, "delete_tag", g, "ok", <<>>)
        /\ UNCHANGED <<tasks, reminders, nextTaskId, nextReminderId, now, dispatched, reqs, sweep,
                       nextTagId>>

----------------------------------------------------------------------------
(* Due reminders: the sweeper and the polling route *)

RECURSIVE InIdOrder(_)
InIdOrder(S) ==
    IF S = {} THEN <<>>
    ELSE LET m == CHOOSE x \in S : \A y \in S : x <= y
         IN <<m>> \o InIdOrder(S \ {m})

\* "reminder.sent = True; reminder.sent_at = now"
MarkSent(row, at) ==
    [f \in DOMAIN row \cup {"sent_at"} |->
        IF f = "sent" THEN TRUE ELSE IF f = "sent_at" THEN at ELSE row[f]]

\* "select(Reminder).where(and_(Reminder.remind_at <= now, Reminder.sent == False))":
\* the rows the session loads, by id
DueUnsent(rems, at) ==
    [r \in {x \in DOMAIN rems : rems[x].remind_at <= at /\ ~rems[x].sent} |-> rems[r]]

\* "task = session.get(Task, reminder.task_id); if not task:"
Orphans(batch) == {r \in DOMAIN batch : batch[r].task_id \notin DOMAIN tasks}

\* the loop reaches "reminder.sent_at = now" for a reminder whose task exists,
\* or its "await event_producer.reminder_due(...)" raises
TickRaises(batch) ==
    DOMAIN batch # Orphans(batch) /\ (~HasField("sent_at") \/ publish(kafka) = "raised")

\* "session.commit()" after the loop: orphans deleted, the others marked sent
TickCommit(batch, at) ==
    [r \in DOMAIN reminders \ Orphans(batch) |->
        IF r \in DOMAIN batch THEN MarkSent(reminders[r], at) ELSE reminders[r]]

\* "await event_producer.reminder_due(...)", once per reminder whose task exists
TickEvents(batch) ==
    LET live == InIdOrder(DOMAIN batch \ Orphans(batch))
    IN [i \in 1..Len(live) |-> Event("reminder.due", batch[live[i]].task_id)]

TickDispatch(batch) ==
    [r \in DOMAIN dispatched |->
        IF r \in DOMAIN batch \ Orphans(batch) THEN dispatched[r] + 1 ELSE dispatched[r]]

\* a loaded reminder of a live task whose row another session deleted after
\* the select: the UPDATE the commit flushes for it matches no row and the
\* commit raises
TickStale(batch) ==
    \E r \in DOMAIN batch \ Orphans(batch) : r \notin DOMAIN reminders

\* the loop over the objects the select loaded, whether or not their rows are
\* still in the table, and the commit; an exception leaves the session
\* uncommitted and is caught and logged by _check_loop
TickLoop(batch, at) ==
    IF TickRaises(batch)
    THEN /\ last' = Call("sweeper_tick", 0, "error", <<>>)
         /\ UNCHANGED <<reminders, dispatched>>
    ELSE IF TickStale(batch)
    THEN /\ last' = Call("sweeper_tick", 0, "error", TickEvents(batch))
         /\ dispatched' = TickDispatch(batch)
         /\ UNCHANGED reminders
    ELSE /\ reminders' = TickCommit(batch, at)
         /\ dispatched' = TickDispatch(batch)
         /\ last' = Call("sweeper_tick", 0, "ok", TickEvents(batch))

\* ReminderChecker._check_due_reminders, run without interruption
SweeperTick ==
    LET batch == DueUnsent(reminders, now)
    IN /\ sweep.pc = "idle"
       /\ IF batch = <<>>
          THEN /\ last' = Call("sweeper_tick", 0, "ok", <<>>)
               /\ UNCHANGED <<reminders, dispatched>>
          ELSE TickLoop(batch, now)
       /\ sweep' = [pc |-> "idle", batch |-> batch, at |-> now, polled |-> FALSE]
       /\ UNCHANGED <<tasks, nextTaskId, nextReminderId, now, reqs>>
       /\ UNCHANGED <<tags, task_tags, nextTagId>>

\* "Reminder.user_id == user_id, Reminder.remind_at <= now, Reminder.read == False"
DueUnread(rems, uid, at) ==
    {r \in DOMAIN rems : rems[r].user_id = uid /\ rems[r].remind_at <= at
                          /\ ~("read" \in DOMAIN rems[r] /\ rems[r].read)}

\* GET /{user_id}/reminders/due
get_due_reminders ==
    \E uid \in users :
        /\ IF ~HasField("read")
           THEN /\ last' = CallBy(uid, "get_due_reminders", 0, "error", <<>>)
                /\ UNCHANGED reminders
           ELSE /\ reminders' =
                      [r \in DOMAIN reminders |->
                          IF r \in DueUnread(reminders, uid, now) /\ ~reminders[r].sent
                          THEN MarkSent(reminders[r], now) ELSE reminders[r]]
                /\ last' = CallBy(uid, "get_due_reminders", 0, "ok", <<>>)
        /\ sweep' = [sweep EXCEPT !.polled = @ \/ sweep.pc # "idle"]
        /\ UNCHANGED <<tasks, nextTaskId, nextReminderId, now, dispatched, reqs>>
        /\ UNCHANGED <<tags, task_tags, nextTagId>>

\* the wall clock moves on
AdvanceClock ==
    \E t \in Instants :
        /\ t > now
        /\ now' = t
        /\ last' = NoCall
        /\ UNCHANGED <<tasks, reminders, nextTaskId, nextReminderId, dispatched, reqs, sweep>>
        /\ UNCHANGED <<tags, task_tags, nextTagId>>

----------------------------------------------------------------------------
(* Calls one after the other *)

\* the start of one of the at most MaxCalls calls of a run
Step(A) ==
    A /\ calls < MaxCalls /\ calls' = calls + 1 /\ UNCHANGED <<users, kafka, checker, stamps, todo>>

Next ==
    \/ Step(create_task)
    \/ Step(update_task)
    \/ Step(toggle_complete)
    \/ Step(delete_task)
    \/ Step(handle_complete_task)
    \/ Step(SweeperTick)
    \/ Step(get_due_reminders)
    \/ Step(AdvanceClock)

Spec == Init /\ [][Next]_vars

\* the routes together with the tool server and the chat agent, which write
\* the same tables
ToolInputs == { CreateInput(D1, Lead, TRUE, "daily") }
ToolPatches == { Patch({TRUE}, None, None), Patch({}, D2, None) }

NextTools ==
    \/ Step(CreateTask(ToolInputs, MaxTasks))
    \/ Step(UpdateTask(ToolPatches))
    \/ Step(toggle_complete)
    \/ Step(delete_task)
    \/ Step(handle_add_task)
    \/ Step(handle_update_task)
    \/ Step(handle_complete_task)
    \/ Step(handle_delete_task)
    \/ Step(SweeperTick)
    \/ Step(get_due_reminders)
    \/ Step(AdvanceClock)

SpecTools == Init /\ [][NextTools]_vars

----------------------------------------------------------------------------
(* Calls that overlap: requests served by different workers, and the       *)
(* sweeper, interleave at the commits of their sessions                    *)

\* Every request inserts at most one reminder and Step caps the requests, so
\* the steps below need no cap on the reminder ids.
\* a request on its way: the route it runs (op), the task object its session
\* holds as it was last loaded (task), the database statement it runs next
\* (pc) and the reminder its select has returned (old, a set with at most one
\* id)
Request(op, uid, tid, p, t, pc) ==
    [op |-> op, uid |-> uid, tid |-> tid, patch |-> p, task |-> t, pc |-> pc,
     old |-> {}]

\* the request in slot s is in route op at pc
At(s, op, pc) == s \in DOMAIN reqs /\ reqs[s].op = op /\ reqs[s].pc = pc

\* "if task.due_date and task.reminder_minutes:" on the task object as it is
\* loaded: the next statement is the INSERT of the reminder, or else the lazy
\* load of task.task_tags in get_task_with_tags
AfterLoad(t) == IF WantsReminder(t) THEN "insert" ELSE "answer"

\* a request in flight has run a statement and goes on
Running(s) ==
    [CallBy(reqs[s].uid, reqs[s].op, reqs[s].tid, "running", <<>>)
       EXCEPT !.patch = reqs[s].patch]

\* a request in flight has read the store, or nothing: the store is as before
Reads(s) ==
    /\ last' = Running(s)
    /\ UNCHANGED <<tasks, reminders, nextTaskId, nextReminderId, now, dispatched, sweep, calls,
                   stamps, todo>>
    /\ UNCHANGED <<tags, task_tags, nextTagId, users, kafka, checker>>

\* "session.add(reminder); session.commit()" for the task object as it is
\* loaded (lines 319-326, 446-453); the commit expires the task object
InsertsReminder(s) ==
    /\ reminders' = AddReminder(reminders, nextReminderId, reqs[s].tid, reqs[s].task)
    /\ nextReminderId' = nextReminderId + 1
    /\ reqs' = [reqs EXCEPT ![s].pc = "reload"]
    /\ last' = Running(s)
    /\ UNCHANGED <<tasks, nextTaskId, now, dispatched, sweep, calls, stamps, todo>>
    /\ UNCHANGED <<tags, task_tags, nextTagId, users, kafka, checker>>

\* the first attribute read of an expired task object ("task.id, task.title"
\* in the arguments of the event) loads the row again, as it is now
Reloads(s) ==
    /\ reqs' = [reqs EXCEPT ![s].task = tasks[reqs[s].tid], ![s].pc = "answer"]
    /\ Reads(s)

\* the event, and get_task_with_tags: "if task.task_tags:" loads the links of
\* the task, the response is built from the task object as it is loaded
Answers(s, topic) ==
    /\ reqs' = Remove(reqs, {s})
    /\ last' = [CallBy(reqs[s].uid, reqs[s].op, reqs[s].tid,
                       get_task_with_tags(reqs[s].task,
                           Answer(kafka, <<Event(topic, reqs[s].tid)>>)),
                       <<Event(topic, reqs[s].tid)>>)
                  EXCEPT !.patch = reqs[s].patch]
    /\ UNCHANGED <<tasks, reminders, nextTaskId, nextReminderId, now, dispatched, sweep, calls,
                   stamps, todo>>
    /\ UNCHANGED <<tags, task_tags, nextTagId, users, kafka, checker>>

\* create_task, for a request body without tag ids, up to its first commit:
\* "task = Task(...); session.add(task); session.commit()"
CreateBegin(s) ==
    \E uid \in users, in \in ConcInputs :
        /\ s \notin DOMAIN reqs
        /\ nextTaskId <= MaxTasks
        /\ IF ~ValidFields(in)
           THEN /\ last' = CallBy(uid, "create_task", 0, "invalid", <<>>)
                /\ UNCHANGED <<tasks, nextTaskId, reqs>>
           ELSE /\ tasks' = tasks @@ (nextTaskId :> NewTask(uid, in))
                /\ nextTaskId' = nextTaskId + 1
                /\ reqs' = reqs @@ (s :> Request("create_task", uid, nextTaskId, NoPatch,
                                                 NewTask(uid, in), "refresh"))
                /\ last' = CallBy(uid, "create_task", nextTaskId, "running", <<>>)
        /\ UNCHANGED <<reminders, nextReminderId, now, dispatched, sweep>>
        /\ UNCHANGED <<tags, task_tags, nextTagId>>

\* "session.refresh(task)": the row is read again, as other requests have
\* left it since the commit
CreateRefresh(s) ==
    /\ At(s, "create_task", "refresh")
    /\ reqs' = [reqs EXCEPT ![s].task = tasks[reqs[s].tid],
                            ![s].pc = AfterLoad(tasks[reqs[s].tid])]
    /\ Reads(s)

\* "reminder = Reminder(...); session.add(reminder); session.commit()" on the
\* task as it was refreshed
CreateRemind(s) ==
    /\ At(s, "create_task", "insert")
    /\ InsertsReminder(s)

\* "task.id, task.title, task.priority" at line 329, after the commit of the
\* reminder
CreateReload(s) ==
    /\ At(s, "create_task", "reload")
    /\ Reloads(s)

\* "await event_producer.task_created(...)" without a producer, and "return
\* get_task_with_tags(task, session)"
CreateAnswer(s) ==
    /\ At(s, "create_task", "answer")
    /\ Answers(s, "task.created")

\* update_task up to "task = session.exec(select(Task).where(Task.id ==
\* task_id, Task.user_id == user_id)).first()" and "if not task: raise 404"
UpdateBegin(s) ==
    \E uid \in users, tid \in 1..MaxTasks, p \in ConcPatches :
        /\ s \notin DOMAIN reqs
        /\ IF ~Found(uid, tid)
           THEN /\ last' = CallBy(uid, "update_task", tid, "not_found", <<>>)
                /\ reqs' = reqs
           ELSE /\ reqs' = reqs @@ (s :> Request("update_task", uid, tid, p, tasks[tid],
                                                 "commit"))
                /\ last' = [CallBy(uid, "update_task", tid, "running", <<>>) EXCEPT !.patch = p]
        /\ UNCHANGED <<tasks, task_tags, reminders, nextTaskId, nextReminderId, now, dispatched,
                       sweep>>
        /\ UNCHANGED <<tags, nextTagId>>

\* the UPDATE a commit flushes for an object that was loaded as loaded and
\* now reads t: it sets the columns whose value has changed since the load
\* and leaves the others as the row has them
Flush(row, loaded, t) ==
    [f \in DOMAIN row |-> IF t[f] # loaded[f] THEN t[f] ELSE row[f]]

\* the assignments of the fields supplied and "session.add(task);
\* session.commit()", for a request body without tag ids
UpdateCommit(s) ==
    /\ At(s, "update_task", "commit")
    /\ tasks' = [tasks EXCEPT ![reqs[s].tid] =
                     Flush(@, reqs[s].task, ApplyPatch(reqs[s].task, reqs[s].patch))]
    /\ reqs' = [reqs EXCEPT ![s].pc = "refresh"]
    /\ last' = [CallBy(reqs[s].uid, "update_task", reqs[s].tid, "running", <<>>)
                  EXCEPT !.patch = reqs[s].patch]
    /\ UNCHANGED <<reminders, nextTaskId, nextReminderId, now, dispatched, sweep, calls, stamps,
                   todo>>
    /\ UNCHANGED <<tags, task_tags, nextTagId, users, kafka, checker>>

\* "session.refresh(task)" reads the row as other requests have left it since
\* the commit; a request that supplies neither due_date nor reminder_minutes
\* goes on to the event and the response
UpdateRefresh(s) ==
    /\ At(s, "update_task", "refresh")
    /\ reqs' = [reqs EXCEPT ![s].task = tasks[reqs[s].tid],
                            ![s].pc = IF TouchesReminder(reqs[s].patch)
                                      THEN "select_old" ELSE "answer"]
    /\ Reads(s)

\* "existing_reminder = session.exec(select(Reminder).where(Reminder.task_id
\* == task_id, Reminder.sent == False)).first()": with a row found the request
\* goes on to delete it, with none to line 445, where the task object is
\* still loaded
UpdateSelectOld(s) ==
    /\ At(s, "update_task", "select_old")
    /\ \E found \in FirstUnsent(reminders, reqs[s].tid) :
           reqs' = [reqs EXCEPT ![s].old = found,
                                ![s].pc = IF found = {} THEN AfterLoad(reqs[s].task)
                                          ELSE "delete_old"]
    /\ Reads(s)

\* "if existing_reminder: session.delete(existing_reminder); session.commit()".
\* A DELETE that matches no row, because an overlapping request has deleted
\* the reminder meanwhile, only warns; the commit expires the task object
UpdateDeleteOld(s) ==
    /\ At(s, "update_task", "delete_old")
    /\ reminders' = Remove(reminders, reqs[s].old)
    /\ reqs' = [reqs EXCEPT ![s].pc = "reread"]
    /\ last' = Running(s)
    /\ UNCHANGED <<tasks, nextTaskId, nextReminderId, now, dispatched, sweep, calls, stamps, todo>>
    /\ UNCHANGED <<tags, task_tags, nextTagId, users, kafka, checker>>

\* "if task.due_date and task.reminder_minutes:" at line 445 after the commit
\* of the delete: the expired task object is loaded again, as the row is now
UpdateReread(s) ==
    /\ At(s, "update_task", "reread")
    /\ reqs' = [reqs EXCEPT ![s].task = tasks[reqs[s].tid],
                            ![s].pc = AfterLoad(tasks[reqs[s].tid])]
    /\ Reads(s)

\* "reminder = Reminder(...); session.add(reminder); session.commit()" for
\* the task object as line 445 has read it
UpdateInsertNew(s) ==
    /\ At(s, "update_task", "insert")
    /\ InsertsReminder(s)

\* "{"title": task.title, "completed": task.completed}" at line 456, after
\* the commit of the reminder
UpdateReload(s) ==
    /\ At(s, "update_task", "reload")
    /\ Reloads(s)

\* "await event_producer.task_updated(...)" without a producer, and "return
\* get_task_with_tags(task, session)"
UpdateAnswer(s) ==
    /\ At(s, "update_task", "answer")
    /\ Answers(s, "task.updated")

\* _check_due_reminders up to "due_reminders = session.exec(statement).all()"
TickSelect ==
    LET batch == DueUnsent(reminders, now)
    IN /\ sweep.pc = "idle"
       /\ sweep' = [pc |-> IF batch = <<>> THEN "idle" ELSE "loop",
                    batch |-> batch, at |-> now, polled |-> FALSE]
       /\ last' = Call("sweeper_tick", 0, IF batch = <<>> THEN "ok" ELSE "running", <<>>)
       /\ UNCHANGED <<tasks, reminders, nextTaskId, nextReminderId, now, dispatched, reqs>>
       /\ UNCHANGED <<tags, task_tags, nextTagId>>

\* the loop over the rows selected, and the commit
TickProcess ==
    /\ sweep.pc = "loop"
    /\ TickLoop(sweep.batch, sweep.at)
    /\ sweep' = [sweep EXCEPT !.pc = "idle"]
    /\ UNCHANGED <<tasks, nextTaskId, nextReminderId, now, reqs, calls, stamps, todo>>
    /\ UNCHANGED <<tags, task_tags, nextTagId, users, kafka, checker>>

NextConc ==
    \/ \E s \in Slots : Step(CreateBegin(s))
    \/ \E s \in Slots : CreateRefresh(s)
    \/ \E s \in Slots : CreateRemind(s)
    \/ \E s \in Slots : CreateReload(s)
    \/ \E s \in Slots : CreateAnswer(s)
    \/ \E s \in Slots : Step(UpdateBegin(s))
    \/ \E s \in Slots : UpdateCommit(s)
    \/ \E s \in Slots : UpdateRefresh(s)
    \/ \E s \in Slots : UpdateSelectOld(s)
    \/ \E s \in Slots : UpdateDeleteOld(s)
    \/ \E s \in Slots : UpdateReread(s)
    \/ \E s \in Slots : UpdateInsertNew(s)
    \/ \E s \in Slots : UpdateReload(s)
    \/ \E s \in Slots : UpdateAnswer(s)
    \/ Step(TickSelect)
    \/ TickProcess
    \/ Step(get_due_reminders)
    \/ Step(AdvanceClock)

SpecConc == Init /\ [][NextConc]_vars

\* the statement a request in flight runs next
Proceeds(s) ==
    \/ CreateRefresh(s) \/ CreateRemind(s) \/ CreateReload(s) \/ CreateAnswer(s)
    \/ UpdateCommit(s) \/ UpdateRefresh(s)
    \/ UpdateSelectOld(s) \/ UpdateDeleteOld(s) \/ UpdateReread(s)
    \/ UpdateInsertNew(s) \/ UpdateReload(s) \/ UpdateAnswer(s)

\* every worker goes on with the request it serves, up to the response
SpecServed == SpecConc /\ \A s \in Slots : WF_vars(Proceeds(s))

----------------------------------------------------------------------------
(* The sweeper loop keeps ticking and the client keeps polling *)

Free(A) == A /\ UNCHANGED <<calls, users, kafka, checker, stamps, todo>>

NextFair ==
    \/ Free(create_task)
    \/ Free(delete_task)
    \/ Free(SweeperTick)
    \/ Free(get_due_reminders)
    \/ Free(AdvanceClock)

SpecFair ==
    /\ Init
    /\ [][NextFair]_vars
    /\ WF_vars(Free(SweeperTick))
    /\ WF_vars(Free(get_due_reminders))
    /\ WF_vars(Free(AdvanceClock))

----------------------------------------------------------------------------
(* Recurrence series: tasks of every recurrence setting, completed along    *)
(* their chains                                                             *)

RecurInput(d, rec, pat, int, end) ==
    [CreateInput(d, None, rec, pat) EXCEPT !.recurrence_interval = int,
                                           !.recurrence_end_date = end]

RecurInputs ==
    { RecurInput(D1, TRUE, "daily", None, D1 + 2 * Day),
      RecurInput(D1, TRUE, "daily", None, D1),
      RecurInput(D1, TRUE, "weekly", None, None),
      RecurInput(D1, TRUE, "monthly", None, D1 + 30 * Day),
      RecurInput(D1, TRUE, "yearly", None, D1 + 364 * Day),
      RecurInput(D1, TRUE, "custom", 2, D1 + 2 * Day),
      RecurInput(D1, TRUE, "custom", None, None),
      RecurInput(D1, TRUE, "none", None, None),
      RecurInput(D1, TRUE, NoPattern, None, None),
      RecurInput(D1, FALSE, "daily", None, None),
      RecurInput(None, TRUE, "daily", None, None) }

NextRecur ==
    \/ Free(CreateTask(RecurInputs, MaxChain))
    \/ Free(ToggleComplete(MaxChain))

SpecRecur == Init /\ [][NextRecur]_vars

----------------------------------------------------------------------------
(* Who may reach what: every route compares the user_id of its path with   *)
(* the authenticated user, then looks the row up by id and user_id         *)

\* GET /{user_id}/tasks/{task_id}
get_task ==
    \E uid \in users, tid \in 1..MaxTasks :
        /\ last' = CallBy(uid, "get_task", tid,
                          IF Found(uid, tid) THEN get_task_with_tags(tasks[tid], "ok")
                          ELSE "not_found", <<>>)
        /\ UNCHANGED <<tasks, reminders, nextTaskId, nextReminderId, now, dispatched, reqs, sweep,
                       tags, task_tags, nextTagId>>

\* GET /{user_id}/tags/{tag_id}
get_tag ==
    \E uid \in users, g \in 1..MaxTags :
        /\ last' = CallBy(uid, "get_tag", g, IF FoundTag(uid, g) THEN "ok" ELSE "not_found", <<>>)
        /\ UNCHANGED <<tasks, reminders, nextTaskId, nextReminderId, now, dispatched, reqs, sweep,
                       tags, task_tags, nextTagId>>

FoundReminder(uid, r) == r \in DOMAIN reminders /\ reminders[r].user_id = uid

\* "reminder.read = True"
MarkRead(row) == [f \in DOMAIN row \cup {"read"} |-> IF f = "read" THEN TRUE ELSE row[f]]

\* PATCH /{user_id}/reminders/{reminder_id}/read: "reminder.read = True" on a
\* row whose model declares no such field raises
mark_reminder_read ==
    \E uid \in users, r \in 1..MaxReminders :
        /\ IF ~FoundReminder(uid, r)
           THEN /\ last' = CallBy(uid, "mark_reminder_read", r, "not_found", <<>>)
                /\ UNCHANGED reminders
           ELSE IF ~HasField("read")
           THEN /\ last' = CallBy(uid, "mark_reminder_read", r, "error", <<>>)
                /\ UNCHANGED reminders
           ELSE /\ reminders' = [reminders EXCEPT ![r] = MarkRead(@)]
                /\ last' = CallBy(uid, "mark_reminder_read", r, "ok", <<>>)
        /\ UNCHANGED <<tasks, nextTaskId, nextReminderId, now, dispatched, reqs, sweep,
                       tags, task_tags, nextTagId>>

\* "select(Reminder).where(and_(Reminder.user_id == user_id, Reminder.read == False))"
Unread(rems, uid) ==
    {r \in DOMAIN rems : rems[r].user_id = uid /\ ~("read" \in DOMAIN rems[r] /\ rems[r].read)}

\* PATCH /{user_id}/reminders/read-all: building the query reads Reminder.read,
\* which the model class does not declare
mark_all_reminders_read ==
    \E uid \in users :
        /\ IF ~HasField("read")
           THEN /\ last' = CallBy(uid, "mark_all_reminders_read", 0, "error", <<>>)
                /\ UNCHANGED reminders
           ELSE /\ reminders' = [r \in DOMAIN reminders |->
                                   IF r \in Unread(reminders, uid)
                                   THEN MarkRead(reminders[r]) ELSE reminders[r]]
                /\ last' = CallBy(uid, "mark_all_reminders_read", 0, "ok", <<>>)
        /\ UNCHANGED <<tasks, nextTaskId, nextReminderId, now, dispatched, reqs, sweep,
                       tags, task_tags, nextTagId>>

\* DELETE /{user_id}/reminders/{reminder_id}
delete_reminder ==
    \E uid \in users, r \in 1..MaxReminders :
        /\ IF ~FoundReminder(uid, r)
           THEN /\ last' = CallBy(uid, "delete_reminder", r, "not_found", <<>>)
                /\ UNCHANGED reminders
           ELSE /\ reminders' = Remove(reminders, {r})
                /\ last' = CallBy(uid, "delete_reminder", r, "ok", <<>>)
        /\ UNCHANGED <<tasks, nextTaskId, nextReminderId, now, dispatched, reqs, sweep,
                       tags, task_tags, nextTagId>>

TaskRoutes == {"get_task", "update_task", "delete_task", "toggle_complete"}
TagRoutes == {"get_tag", "update_tag", "delete_tag"}
ReminderRoutes == {"mark_reminder_read", "delete_reminder"}

RouteIds(op) ==
    IF op \in TaskRoutes THEN 1..MaxTasks
    ELSE IF op \in TagRoutes THEN 1..MaxTags ELSE 1..MaxReminders

\* a request whose path names another user than the authenticated one:
\* "if user_id != current_user.id: raise HTTPException(status_code=403,
\* detail="Access denied")", the first statement of every route
AccessDenied ==
    \E caller \in users, op \in TaskRoutes \cup TagRoutes \cup ReminderRoutes :
        \E uid \in Users \ {caller}, id \in RouteIds(op) :
            /\ last' = [Call(op, id, "forbidden", <<>>) EXCEPT !.user = uid, !.caller = caller]
            /\ UNCHANGED <<tasks, reminders, nextTaskId, nextReminderId, now, dispatched, reqs,
                           sweep, tags, task_tags, nextTagId>>

\* POST /auth/register with an email not yet taken
register ==
    \E uid \in Users \ users :
        /\ users' = users \cup {uid}
        /\ last' = CallBy(uid, "register", 0, "ok", <<>>)
        /\ calls < MaxCalls
        /\ calls' = calls + 1
        /\ UNCHANGED <<stamps, todo>>
        /\ UNCHANGED <<tasks, reminders, nextTaskId, nextReminderId, now, dispatched, reqs, sweep,
                       tags, task_tags, nextTagId, kafka, checker>>

AuthInputs == { CreateInput(D1, Lead, FALSE, NoPattern) }

AuthPatches == { [NoPatch EXCEPT !.title = <<"c">>] }

NextAuth ==
    \/ register
    \/ Step(CreateTask(AuthInputs, MaxTasks))
    \/ Step(create_tag)
    \/ Step(get_task)
    \/ Step(UpdateTask(AuthPatches))
    \/ Step(delete_task)
    \/ Step(ToggleComplete(MaxTasks))
    \/ Step(get_tag)
    \/ Step(update_tag)
    \/ Step(delete_tag)
    \/ Step(mark_reminder_read)
    \/ Step(delete_reminder)
    \/ Step(AccessDenied)

SpecAuth == Init /\ [][NextAuth]_vars

----------------------------------------------------------------------------
(* The event sink comes and goes under the requests *)

\* EventProducer.connect at startup, with KAFKA_ENABLED and a broker that answers
connect ==
    /\ kafka = "off"
    /\ kafka' = "up"
    /\ last' = NoCall
    /\ UNCHANGED <<tasks, reminders, nextTaskId, nextReminderId, now, dispatched, reqs, sweep,
                   tags, task_tags, nextTagId, calls, users, checker, stamps, todo>>

\* the broker becomes unreachable, or reachable again
BrokerFlips ==
    /\ kafka # "off"
    /\ kafka' = IF kafka = "up" THEN "down" ELSE "up"
    /\ last' = NoCall
    /\ UNCHANGED <<tasks, reminders, nextTaskId, nextReminderId, now, dispatched, reqs, sweep,
                   tags, task_tags, nextTagId, calls, users, checker, stamps, todo>>

\* delete_task up to "await event_producer.task_deleted(user_id, task_id)".
\* Without a producer publish returns at once and the request runs on to its
\* commit; with one it is suspended in send_and_wait, and the event loop
\* serves other requests and the sweeper before it goes on
DeleteBegin(s) ==
    /\ s \notin DOMAIN reqs
    /\ IF kafka = "off"
       THEN delete_task
       ELSE \E uid \in users, tid \in 1..MaxTasks :
                /\ IF ~Found(uid, tid)
                   THEN /\ last' = CallBy(uid, "delete_task", tid, "not_found", <<>>)
                        /\ reqs' = reqs
                   ELSE /\ last' = CallBy(uid, "delete_task", tid, "running", <<>>)
                        /\ reqs' = reqs @@ (s :> [uid |-> uid, tid |-> tid, pc |-> "publish"])
                /\ UNCHANGED <<tasks, task_tags, reminders, nextTaskId, nextReminderId, now,
                               dispatched, sweep, tags, nextTagId>>

\* send_and_wait has returned or raised (publish logs it), then
\* "session.delete(task); session.commit()".  A DELETE that matches no row,
\* because an overlapping request deleted the task meanwhile, only warns
DeleteCommit(s) ==
    /\ s \in DOMAIN reqs
    /\ reqs[s].pc = "publish"
    /\ LET uid == reqs[s].uid
           tid == reqs[s].tid
           evs == <<Event("task.deleted", tid)>>
       IN IF Answer(kafka, evs) # "ok"
          THEN /\ last' = CallBy(uid, "delete_task", tid, Answer(kafka, evs), evs)
               /\ UNCHANGED <<tasks, task_tags>>
          ELSE \/ /\ tasks' = Remove(tasks, {tid} \cap DOMAIN tasks)
                  /\ task_tags' = task_tags \ LinksOf(task_tags, tid)
                  /\ last' = CallBy(uid, "delete_task", tid, "ok", evs)
               \/ /\ tid \in DOMAIN tasks /\ Referencing(tid)
                  /\ UNCHANGED <<tasks, task_tags>>
                  /\ last' = CallBy(uid, "delete_task", tid, "error", evs)
    /\ reqs' = Remove(reqs, {s})
    /\ UNCHANGED <<reminders, nextTaskId, nextReminderId, now, dispatched, sweep, tags, nextTagId>>
    /\ UNCHANGED <<calls, users, kafka, checker, stamps, todo>>

SinkInputs == { CreateInput(D1, Lead, TRUE, "daily") }

SinkPatches == { Patch({}, D2, None) }

\* a request suspended in send_and_wait: its writes are committed, c is the
\* record of the call and t the task object its session holds
Awaiting(c, t) == [op |-> c.op, uid |-> c.user, tid |-> c.task, call |-> c, task |-> t,
                   pc |-> "await"]

\* create_task up to "await event_producer.task_created(...)": every commit
\* of the request lies before it.  Without a producer, or when the request
\* ends before the await, it runs to its end
CreateAwait(s) ==
    /\ s \notin DOMAIN reqs
    /\ \/ /\ CreateTask(SinkInputs, MaxTasks)
          /\ kafka = "off" \/ last'.events = <<>>
       \/ /\ kafka # "off"
          /\ \E uid \in users, in \in SinkInputs :
                LET tid == nextTaskId
                    t == NewTask(uid, in)
                    c == [CallBy(uid, "create_task", tid, "running",
                                 <<Event("task.created", tid)>>) EXCEPT !.ids = in.tag_ids]
                IN /\ nextTaskId <= MaxTasks
                   /\ ValidFields(in) /\ ~Clash(tags, uid, in.tag_ids)
                   /\ WantsReminder(t) => nextReminderId <= MaxReminders
                   /\ tasks' = tasks @@ (tid :> t)
                   /\ nextTaskId' = nextTaskId + 1
                   /\ reminders' = AddReminder(reminders, nextReminderId, tid, t)
                   /\ nextReminderId' =
                          IF WantsReminder(t) THEN nextReminderId + 1 ELSE nextReminderId
                   /\ task_tags' = AddLinks(task_tags, tags, uid, tid, in.tag_ids)
                   /\ reqs' = reqs @@ (s :> Awaiting(c, t))
                   /\ last' = c
          /\ UNCHANGED <<now, dispatched, sweep, tags, nextTagId>>

\* update_task up to "await event_producer.task_updated(...)"
UpdateAwait(s) ==
    /\ s \notin DOMAIN reqs
    /\ \/ /\ UpdateTask(SinkPatches)
          /\ kafka = "off" \/ last'.events = <<>>
       \/ /\ kafka # "off"
          /\ \E uid \in users, tid \in 1..MaxTasks, p \in SinkPatches :
                LET t == ApplyPatch(tasks[tid], p)
                    insert == TouchesReminder(p) /\ WantsReminder(t)
                    c == [CallBy(uid, "update_task", tid, "running",
                                 <<Event("task.updated", tid)>>)
                            EXCEPT !.patch = p, !.before = tasks[tid].completed]
                IN /\ ValidFields(p) /\ Found(uid, tid)
                   /\ ~(p.tag_ids # {} /\ Clash(tags, uid, PatchIds(p)))
                   /\ insert => nextReminderId <= MaxReminders
                   /\ tasks' = [tasks EXCEPT ![tid] = t]
                   /\ IF TouchesReminder(p)
                      THEN \E gone \in FirstUnsent(reminders, tid) :
                               reminders' = Reconcile(reminders, gone, nextReminderId, tid, t)
                      ELSE reminders' = reminders
                   /\ nextReminderId' = IF insert THEN nextReminderId + 1 ELSE nextReminderId
                   /\ task_tags' = Retag(task_tags, tags, uid, tid, p)
                   /\ reqs' = reqs @@ (s :> Awaiting(c, t))
                   /\ last' = c
          /\ UNCHANGED <<nextTaskId, now, dispatched, sweep, tags, nextTagId>>

\* toggle_complete up to "if task.completed: await
\* event_producer.task_completed(...)": a toggle that completes the task is
\* suspended there, after the commits of the flag and of the follow-up
ToggleAwait(s) ==
    /\ s \notin DOMAIN reqs
    /\ \/ /\ ToggleComplete(MaxTasks)
          /\ kafka = "off" \/ last'.events = <<>>
       \/ /\ kafka # "off"
          /\ \E uid \in users, tid \in 1..MaxTasks :
                LET t == [tasks[tid] EXCEPT !.completed = Toggled(@)]
                    spawn == SpawnsOnToggle(~tasks[tid].completed, t) /\ HasNext(t)
                    child == NextTask(t, tid)
                    remind == spawn /\ WantsReminder(child)
                    c == [CallBy(uid, "toggle_complete", tid, "running",
                                 CompletionEvents(t, tid))
                            EXCEPT !.before = tasks[tid].completed,
                                   !.twice = (last.op = "toggle_complete" /\ last.status = "ok"
                                              /\ last.task = tid),
                                   !.spawned = IF spawn THEN nextTaskId ELSE 0]
                IN /\ Found(uid, tid) /\ CompletionEvents(t, tid) # <<>>
                   /\ spawn => nextTaskId <= MaxTasks
                   /\ remind => nextReminderId <= MaxReminders
                   /\ tasks' = IF spawn
                               THEN [tasks EXCEPT ![tid] = t] @@ (nextTaskId :> child)
                               ELSE [tasks EXCEPT ![tid] = t]
                   /\ nextTaskId' = IF spawn THEN nextTaskId + 1 ELSE nextTaskId
                   /\ reminders' = IF spawn
                                   THEN AddReminder(reminders, nextReminderId, nextTaskId, child)
                                   ELSE reminders
                   /\ nextReminderId' = IF remind THEN nextReminderId + 1 ELSE nextReminderId
                   /\ task_tags' = IF spawn
                                   THEN CopyLinks(task_tags, tid, nextTaskId)
                                   ELSE task_tags
                   /\ reqs' = reqs @@ (s :> Awaiting(c, t))
                   /\ last' = c
          /\ UNCHANGED <<now, dispatched, sweep, tags, nextTagId>>

\* send_and_wait has returned or raised (publish logs it) and the request
\* answers: "return get_task_with_tags(task, session)" on the task object as
\* the request loaded it before the await
AwaitReturns(s) ==
    /\ s \in DOMAIN reqs
    /\ reqs[s].pc = "await"
    /\ last' = [reqs[s].call EXCEPT
                   !.status = get_task_with_tags(reqs[s].task, Answer(kafka, reqs[s].call.events))]
    /\ reqs' = Remove(reqs, {s})
    /\ UNCHANGED <<tasks, reminders, nextTaskId, nextReminderId, now, dispatched, sweep, tags,
                   task_tags, nextTagId>>
    /\ UNCHANGED <<calls, users, kafka, checker, stamps, todo>>

NextSink ==
    \/ connect
    \/ BrokerFlips
    \/ \E s \in Slots : Step(CreateAwait(s))
    \/ \E s \in Slots : Step(UpdateAwait(s))
    \/ \E s \in Slots : Step(ToggleAwait(s))
    \/ \E s \in Slots : AwaitReturns(s)
    \/ \E s \in Slots : Step(DeleteBegin(s))
    \/ \E s \in Slots : DeleteCommit(s)
    \/ Step(SweeperTick)
    \/ Step(AdvanceClock)

SpecSink == Init /\ [][NextSink]_vars

----------------------------------------------------------------------------
(* ReminderChecker: start, stop and the check loop as tasks of one event   *)
(* loop.  checker.loops[i] is the state of the i-th task created for       *)
(* _check_loop: "new" (created, not yet run), "sleeping" (suspended in     *)
(* asyncio.sleep), "cancelling" (cancel() called, CancelledError not yet   *)
(* thrown into it) or "done"; checker.task is self._task (0 for None);     *)
(* checker.stops maps each stop call suspended in "await self._task" to    *)
(* the task it awaits; checker.halted records that a stop has returned     *)
(* with no start since; checker.beat flips at every tick and checker.errs  *)
(* counts, up to two, the ticks in a row that have raised                  *)

\* a task whose reminder is due from the start
LifeInputs == { CreateInput(Lead, Lead, FALSE, NoPattern) }

\* start without "if self._running: return"
StartsAlways(running) == TRUE

\* "if self._running: return"
Starts(running) == ~running

\* ReminderChecker.start: no await, so it runs in one step
start ==
    /\ IF Starts(checker.running)
       THEN /\ Len(checker.loops) < MaxLoops
            /\ checker' = [checker EXCEPT !.running = TRUE,
                                          !.task = Len(checker.loops) + 1,
                                          !.loops = Append(@, "new"),
                                          !.halted = FALSE]
            /\ last' = Call("start", Len(checker.loops) + 1, "ok", <<>>)
       ELSE /\ checker' = checker
            /\ last' = Call("start", 0, "noop", <<>>)
    /\ UNCHANGED <<tasks, reminders, nextTaskId, nextReminderId, now, dispatched, reqs, sweep,
                   tags, task_tags, nextTagId, calls, users, kafka, stamps, todo>>

\* stop without "self._task.cancel()"
CancelNothing(state) == state

\* "self._task.cancel()": a task that is not done gets CancelledError thrown
\* into it the next time the event loop runs it
Cancel(state) == IF state = "done" THEN "done" ELSE "cancelling"

\* ReminderChecker.stop up to "await self._task"; with no task, or a task
\* that is already done, the await does not suspend and stop returns
stop ==
    LET k == checker.task
    IN /\ IF k = 0
          THEN /\ checker' = [checker EXCEPT !.running = FALSE, !.halted = TRUE]
               /\ last' = Call("stop", 0, "ok", <<>>)
          ELSE IF Cancel(checker.loops[k]) = "done"
          THEN /\ checker' = [checker EXCEPT !.running = FALSE, !.halted = TRUE]
               /\ last' = Call("stop", k, "ok", <<>>)
          ELSE \E s \in (1..MaxStops) \ DOMAIN checker.stops :
                  /\ \A f \in (1..MaxStops) \ DOMAIN checker.stops : s <= f
                  /\ checker' = [checker EXCEPT !.running = FALSE,
                                                !.loops[k] = Cancel(@),
                                                !.stops = @ @@ (s :> k)]
                  /\ last' = Call("stop", k, "waiting", <<>>)
       /\ UNCHANGED <<tasks, reminders, nextTaskId, nextReminderId, now, dispatched, reqs, sweep,
                      tags, task_tags, nextTagId, calls, users, kafka, stamps, todo>>

\* "await self._task" resumes once the task is done: "except
\* asyncio.CancelledError: pass", and stop returns
StopReturn(s) ==
    /\ s \in DOMAIN checker.stops
    /\ checker.loops[checker.stops[s]] = "done"
    /\ checker' = [checker EXCEPT !.stops = Remove(@, {s}),
                                  !.halted = ~checker.running]
    /\ last' = Call("stop", checker.stops[s], "ok", <<>>)
    /\ UNCHANGED <<tasks, reminders, nextTaskId, nextReminderId, now, dispatched, reqs, sweep,
                   tags, task_tags, nextTagId, calls, users, kafka, stamps, todo>>

\* a cancel() that is never delivered
ThrownNever(state) == FALSE

\* "self._task.cancel()" arranges for CancelledError to be thrown into the
\* task when the event loop next runs it, at the await where it is suspended
Thrown(state) == state = "cancelling"

\* _check_loop without "try: ... except Exception": a tick that raises ends
\* the loop task
AfterTickUncaught(status) == IF status = "error" THEN "done" ELSE "sleeping"

\* "try: await self._check_due_reminders() except Exception as e: print(...)",
\* then "await asyncio.sleep(CHECK_INTERVAL)" whatever the tick did
AfterTick(status) == "sleeping"

\* the event loop runs the i-th loop task up to its next suspension.  A
\* cancelled task ends with CancelledError, which "except Exception" does not
\* catch; otherwise "while self._running": one tick, then asyncio.sleep.
\* The only await of a tick is "await event_producer.reminder_due(...)",
\* after "reminder.sent_at = now": a tick either raises there or has no live
\* reminder, so it never suspends
LoopStep(i) ==
    /\ i \in 1..Len(checker.loops)
    /\ checker.loops[i] # "done"
    /\ IF Thrown(checker.loops[i])
       THEN /\ checker' = [checker EXCEPT !.loops[i] = "done"]
            /\ last' = Call("check_loop", i, "cancelled", <<>>)
            /\ UNCHANGED <<tasks, reminders, nextTaskId, nextReminderId, now, dispatched, reqs,
                           sweep, tags, task_tags, nextTagId>>
       ELSE IF ~checker.running
       THEN /\ checker' = [checker EXCEPT !.loops[i] = "done"]
            /\ last' = Call("check_loop", i, "returned", <<>>)
            /\ UNCHANGED <<tasks, reminders, nextTaskId, nextReminderId, now, dispatched, reqs,
                           sweep, tags, task_tags, nextTagId>>
       ELSE /\ SweeperTick
            /\ checker' = [checker EXCEPT !.loops[i] = AfterTick(last'.status),
                                          !.beat = ~@,
                                          !.errs = IF last'.status # "error" THEN 0
                                                   ELSE IF @ = 0 THEN 1 ELSE 2]
    /\ UNCHANGED <<calls, users, kafka, stamps, todo>>

NextLife ==
    \/ start
    \/ stop
    \/ \E s \in 1..MaxStops : StopReturn(s)
    \/ \E i \in 1..MaxLoops : LoopStep(i)
    \/ Free(CreateTask(LifeInputs, MaxTasks))

\* the event loop runs every task that is ready
SpecLife ==
    /\ Init
    /\ [][NextLife]_vars
    /\ \A s \in 1..MaxStops : WF_vars(StopReturn(s))
    /\ \A i \in 1..MaxLoops : WF_vars(LoopStep(i))

----------------------------------------------------------------------------
(* Request bodies at and beyond what the schemas accept *)

Titles ==
    { <<" ", "b", " ">>, <<" ">>, <<>>, Run("a", TitleMax), Run("a", TitleMax + 1) }

FormInputs ==
    { [CreateInput(D1, Lead, FALSE, NoPattern) EXCEPT !.title = x, !.description = <<"d">>] :
          x \in Titles }

FormPatches ==
    { [NoPatch EXCEPT !.title = x] : x \in Titles }
        \cup { [NoPatch EXCEPT !.description = <<>>],
               [NoPatch EXCEPT !.priority = "high"],
               [NoPatch EXCEPT !.is_recurring = {TRUE}, !.recurrence_pattern = "weekly"],
               Patch({}, D2, None), Patch({TRUE}, None, 0) }

NextForm ==
    \/ Step(CreateTask(FormInputs, MaxTasks))
    \/ Step(UpdateTask(FormPatches))

SpecForm == Init /\ [][NextForm]_vars

----------------------------------------------------------------------------
(* Tag lists with ids of other users, unknown ids and repeated ids *)

LinkInput(ids) == [CreateInput(D1, Lead, FALSE, NoPattern) EXCEPT !.tag_ids = ids]

LinkInputs == { LinkInput(<<>>), LinkInput(<<1, 2>>), LinkInput(<<1, 1>>) }

LinkPatches ==
    { [NoPatch EXCEPT !.tag_ids = {<<>>}], [NoPatch EXCEPT !.tag_ids = {<<2, 1>>}],
      [NoPatch EXCEPT !.tag_ids = {<<2, 2>>}], Patch({}, D2, None) }

NextLinks ==
    \/ register
    \/ Step(create_tag)
    \/ Step(CreateTask(LinkInputs, MaxTasks))
    \/ Step(UpdateTask(LinkPatches))

SpecLinks == Init /\ [][NextLinks]_vars

----------------------------------------------------------------------------
(* created_at and updated_at.  Every datetime.utcnow() reads the clock:    *)
(* a request reads later than every request before it, and two reads      *)
(* that follow each other in one constructor call may or may not fall     *)
(* into the same microsecond                                               *)

\* "created_at: datetime = Field(default_factory=datetime.utcnow)" and
\* "updated_at: datetime = Field(default_factory=datetime.utcnow)": one read
\* for each field when Task(...) is built, the first at a
NewStamps(a) == { [created_at |-> a, updated_at |-> u] : u \in {a, a + 1} }

\* "task.updated_at = datetime.utcnow()"
Touch(row, a) == [row EXCEPT !.updated_at = a]

StampInputs ==
    { CreateInput(D1, None, FALSE, NoPattern), CreateInput(D1, None, TRUE, "daily") }

StampPatches == { [NoPatch EXCEPT !.title = <<"c">>], Patch({TRUE}, None, None) }

\* a task route together with the clock readings it stores
Timed(A) ==
    /\ A
    /\ UNCHANGED <<calls, users, kafka, checker, todo>>
    /\ LET tid == last'.task
           rows == stamps.rows
       IN IF last'.status \notin {"ok", "error"}
          THEN stamps' = stamps
          ELSE \E a \in (stamps.clock + 1)..MaxStamp :
                  IF last'.op = "create_task"
                  THEN \E n \in NewStamps(a) :
                          /\ n.updated_at <= MaxStamp
                          /\ stamps' = [clock |-> n.updated_at, rows |-> rows @@ (tid :> n)]
                  ELSE IF last'.spawned = 0
                  THEN stamps' = [clock |-> a, rows |-> [rows EXCEPT ![tid] = Touch(@, a)]]
                  ELSE \E n \in NewStamps(a + 1) :
                          /\ n.updated_at <= MaxStamp
                          /\ stamps' = [clock |-> n.updated_at,
                                        rows |-> [rows EXCEPT ![tid] = Touch(@, a)]
                                                     @@ (last'.spawned :> n)]

NextStamp ==
    \/ Timed(CreateTask(StampInputs, MaxTasks))
    \/ Timed(UpdateTask(StampPatches))
    \/ Timed(ToggleComplete(MaxTasks))

SpecStamp == Init /\ [][NextStamp]_vars

----------------------------------------------------------------------------
(* toggle_complete requests that overlap.  Each request has a session of   *)
(* its own: it loads the task, flips the flag of the object it loaded and  *)
(* commits; nothing locks the row between the load and the commit          *)

\* the follow-ups of task tid
Children(tid) == {c \in DOMAIN tasks : tasks[c].parent_task_id = tid}

\* the requests in flight on task tid, other than s
Others(s, tid) == {o \in DOMAIN reqs \ {s} : reqs[o].tid = tid}

\* toggle_complete up to "task = session.exec(select(Task).where(Task.id ==
\* task_id, Task.user_id == user_id)).first()" and "if not task: raise 404".
\* was is the flag that was loaded and child the id of the follow-up the
\* request stores; kids and seen are history: the follow-ups the task had
\* when it was loaded, and the commits of other requests on it since
ToggleRead(s) ==
    \E uid \in users, tid \in 1..MaxChain :
        /\ s \notin DOMAIN reqs
        /\ IF ~Found(uid, tid)
           THEN /\ last' = CallBy(uid, "toggle_complete", tid, "not_found", <<>>)
                /\ reqs' = reqs
           ELSE /\ reqs' = reqs @@ (s :> [uid |-> uid, tid |-> tid, patch |-> NoPatch,
                                          task |-> tasks[tid], pc |-> "flip",
                                          was |-> tasks[tid].completed, child |-> 0,
                                          kids |-> Cardinality(Children(tid)), seen |-> 0])
                /\ last' = CallBy(uid, "toggle_complete", tid, "running", <<>>)
        /\ UNCHANGED <<tasks, reminders, nextTaskId, nextReminderId, task_tags>>
        /\ UNCHANGED <<now, dispatched, sweep, tags, nextTagId>>

\* the answer of a toggle_complete request: the event and the response are
\* made from the task as the request holds it at line 535.  last.before is
\* the flag the request loaded; last.twice says that exactly one other
\* request committed on the task while this one was in flight, that the
\* other one overlapped no third request, and that no further request on the
\* task is in flight; last.spawned counts the follow-ups the task has gained
\* since the request loaded it
ToggleAnswered(s, t) ==
    [CallBy(reqs[s].uid, "toggle_complete", reqs[s].tid,
            get_task_with_tags(t, Answer(kafka, CompletionEvents(t, reqs[s].tid))),
            CompletionEvents(t, reqs[s].tid))
       EXCEPT !.before = reqs[s].was,
              !.twice = (reqs[s].seen = 1 /\ Others(s, reqs[s].tid) = {}),
              !.spawned = Cardinality(Children(reqs[s].tid)) - reqs[s].kids]

\* a step of a request in flight that leaves it in flight
ToggleRunning(s) == CallBy(reqs[s].uid, "toggle_complete", reqs[s].tid, "running", <<>>)

\* "was_incomplete = not task.completed; task.completed = not task.completed;
\* task.updated_at = datetime.utcnow(); session.add(task); session.commit()".
\* The UPDATE writes the flag computed from the object that was loaded
ToggleCommit(s) ==
    /\ s \in DOMAIN reqs
    /\ reqs[s].pc = "flip"
    /\ LET tid == reqs[s].tid
       IN /\ tasks' = [tasks EXCEPT ![tid].completed = Toggled(reqs[s].was)]
          /\ reqs' = [o \in DOMAIN reqs |->
                         IF o = s THEN [reqs[s] EXCEPT !.pc = "refresh"]
                         ELSE IF reqs[o].tid = tid
                         THEN [reqs[o] EXCEPT !.seen = @ + 1 + reqs[s].seen]
                         ELSE reqs[o]]
    /\ last' = ToggleRunning(s)
    /\ UNCHANGED <<reminders, nextTaskId, nextReminderId, task_tags>>
    /\ UNCHANGED <<now, dispatched, sweep, tags, nextTagId>>
    /\ UNCHANGED <<calls, users, kafka, checker, stamps, todo>>

\* "session.refresh(task)" reads the row as it is now, and "if was_incomplete
\* and task.completed and task.is_recurring" with the tests that open
\* create_next_recurring_task decide on it.  Without a follow-up nothing
\* expires the task again, and the request answers from what it has read
ToggleRefresh(s) ==
    /\ s \in DOMAIN reqs
    /\ reqs[s].pc = "refresh"
    /\ LET t == tasks[reqs[s].tid]
       IN IF SpawnsOnToggle(~reqs[s].was, t) /\ HasNext(t)
          THEN /\ reqs' = [reqs EXCEPT ![s].task = t, ![s].pc = "spawn"]
               /\ last' = ToggleRunning(s)
          ELSE /\ reqs' = Remove(reqs, {s})
               /\ last' = ToggleAnswered(s, t)
    /\ UNCHANGED <<tasks, reminders, nextTaskId, nextReminderId, task_tags>>
    /\ UNCHANGED <<now, dispatched, sweep, tags, nextTagId>>
    /\ UNCHANGED <<calls, users, kafka, checker, stamps, todo>>

\* create_next_recurring_task up to its first commit: "new_task = Task(...);
\* session.add(new_task); session.commit()"
ToggleSpawn(s) ==
    /\ s \in DOMAIN reqs
    /\ reqs[s].pc = "spawn"
    /\ nextTaskId <= MaxChain
    /\ tasks' = tasks @@ (nextTaskId :> NextTask(reqs[s].task, reqs[s].tid))
    /\ nextTaskId' = nextTaskId + 1
    /\ reqs' = [reqs EXCEPT ![s].child = nextTaskId, ![s].pc = "links"]
    /\ last' = ToggleRunning(s)
    /\ UNCHANGED <<reminders, nextReminderId, task_tags>>
    /\ UNCHANGED <<now, dispatched, sweep, tags, nextTagId>>
    /\ UNCHANGED <<calls, users, kafka, checker, stamps, todo>>

\* "if task.task_tags: for task_tag in task.task_tags: ...; session.commit()":
\* the commit before has expired the task, its links are read as they are now
ToggleLinks(s) ==
    /\ s \in DOMAIN reqs
    /\ reqs[s].pc = "links"
    /\ task_tags' = CopyLinks(task_tags, reqs[s].tid, reqs[s].child)
    /\ reqs' = [reqs EXCEPT ![s].pc = "remind"]
    /\ last' = ToggleRunning(s)
    /\ UNCHANGED <<tasks, reminders, nextTaskId, nextReminderId>>
    /\ UNCHANGED <<now, dispatched, sweep, tags, nextTagId>>
    /\ UNCHANGED <<calls, users, kafka, checker, stamps, todo>>

\* "if new_task.due_date and new_task.reminder_minutes: ...
\* session.add(reminder); session.commit()", on the follow-up as stored
ToggleRemind(s) ==
    /\ s \in DOMAIN reqs
    /\ reqs[s].pc = "remind"
    /\ LET child == tasks[reqs[s].child]
       IN /\ WantsReminder(child) => nextReminderId <= MaxReminders
          /\ reminders' = AddReminder(reminders, nextReminderId, reqs[s].child, child)
          /\ nextReminderId' = IF WantsReminder(child) THEN nextReminderId + 1
                                ELSE nextReminderId
    /\ reqs' = [reqs EXCEPT ![s].pc = "answer"]
    /\ last' = ToggleRunning(s)
    /\ UNCHANGED <<tasks, nextTaskId, task_tags>>
    /\ UNCHANGED <<now, dispatched, sweep, tags, nextTagId>>
    /\ UNCHANGED <<calls, users, kafka, checker, stamps, todo>>

\* "if task.completed: await event_producer.task_completed(...)" and the
\* response: the commits of the follow-up have expired the task, so its flag
\* is read from the row as other requests have left it
ToggleAnswer(s) ==
    /\ s \in DOMAIN reqs
    /\ reqs[s].pc = "answer"
    /\ reqs' = Remove(reqs, {s})
    /\ last' = ToggleAnswered(s, tasks[reqs[s].tid])
    /\ UNCHANGED <<tasks, reminders, nextTaskId, nextReminderId, task_tags>>
    /\ UNCHANGED <<now, dispatched, sweep, tags, nextTagId>>
    /\ UNCHANGED <<calls, users, kafka, checker, stamps, todo>>

NextFlip ==
    \/ Step(CreateTask(StampInputs, MaxTasks))
    \/ \E s \in Slots : Step(ToggleRead(s))
    \/ \E s \in Slots : ToggleCommit(s)
    \/ \E s \in Slots : ToggleRefresh(s)
    \/ \E s \in Slots : ToggleSpawn(s)
    \/ \E s \in Slots : ToggleLinks(s)
    \/ \E s \in Slots : ToggleRemind(s)
    \/ \E s \in Slots : ToggleAnswer(s)

SpecFlip == Init /\ [][NextFlip]_vars

----------------------------------------------------------------------------
(* create_tag and update_tag requests that overlap.  The tags table is     *)
(* created from the Tag class, which declares no unique constraint on      *)
(* (user_id, name): the handlers' own select is the only duplicate check   *)

\* create_tag up to "if existing_tag: raise HTTPException(status_code=400, ...)"
CreateTagCheck(s) ==
    \E uid \in users, name \in TagNames :
        /\ s \notin DOMAIN reqs
        /\ IF NameTaken(uid, name, {})
           THEN /\ last' = CallBy(uid, "create_tag", 0, "bad_request", <<>>)
                /\ reqs' = reqs
           ELSE /\ reqs' = reqs @@ (s :> [uid |-> uid, tid |-> 0, name |-> name, pc |-> "insert_tag"])
                /\ last' = CallBy(uid, "create_tag", 0, "running", <<>>)
        /\ UNCHANGED <<tasks, reminders, nextTaskId, nextReminderId, now, dispatched, sweep,
                       tags, task_tags, nextTagId>>

\* "tag = Tag(user_id=user_id, name=tag_data.name.strip(), ...); session.add(tag);
\* session.commit()"
CreateTagInsert(s) ==
    /\ s \in DOMAIN reqs
    /\ reqs[s].pc = "insert_tag"
    /\ nextTagId <= MaxTags
    /\ tags' = tags @@ (nextTagId :> [user_id |-> reqs[s].uid, name |-> Strip(reqs[s].name)])
    /\ nextTagId' = nextTagId + 1
    /\ reqs' = Remove(reqs, {s})
    /\ last' = CallBy(reqs[s].uid, "create_tag", nextTagId, "ok", <<>>)
    /\ UNCHANGED <<tasks, reminders, nextTaskId, nextReminderId, now, dispatched, sweep, task_tags>>
    /\ UNCHANGED <<calls, users, kafka, checker, stamps, todo>>

\* update_tag with a name, up to "tag = session.exec(select(Tag).where(Tag.id
\* == tag_id, Tag.user_id == user_id)).first()" and "if not tag: raise 404":
\* the session holds the tag as it was loaded
UpdateTagSelect(s) ==
    \E uid \in users, g \in 1..MaxTags, name \in TagNames :
        /\ s \notin DOMAIN reqs
        /\ IF ~FoundTag(uid, g)
           THEN /\ last' = CallBy(uid, "update_tag", g, "not_found", <<>>)
                /\ reqs' = reqs
           ELSE /\ reqs' = reqs @@ (s :> [uid |-> uid, tid |-> g, name |-> name,
                                          loaded |-> tags[g].name, pc |-> "check_tag"])
                /\ last' = CallBy(uid, "update_tag", g, "running", <<>>)
        /\ UNCHANGED <<tasks, reminders, nextTaskId, nextReminderId, now, dispatched, sweep,
                       tags, task_tags, nextTagId>>

\* the select of another tag of the user with the new name and "if
\* existing_tag: raise HTTPException(status_code=400, ...)"
UpdateTagCheck(s) ==
    /\ s \in DOMAIN reqs
    /\ reqs[s].pc = "check_tag"
    /\ IF NameTaken(reqs[s].uid, reqs[s].name, {reqs[s].tid})
       THEN /\ last' = CallBy(reqs[s].uid, "update_tag", reqs[s].tid, "bad_request", <<>>)
            /\ reqs' = Remove(reqs, {s})
       ELSE /\ last' = CallBy(reqs[s].uid, "update_tag", reqs[s].tid, "running", <<>>)
            /\ reqs' = [reqs EXCEPT ![s].pc = "rename_tag"]
    /\ UNCHANGED <<tasks, reminders, nextTaskId, nextReminderId, now, dispatched, sweep,
                   tags, task_tags, nextTagId>>
    /\ UNCHANGED <<calls, users, kafka, checker, stamps, todo>>

\* "tag.name = tag_data.name.strip(); ... session.add(tag); session.commit()":
\* the commit issues an UPDATE only when the name assigned differs from the
\* name loaded, so a name that an overlapping request has stored meanwhile
\* stays when it does not
UpdateTagCommit(s) ==
    /\ s \in DOMAIN reqs
    /\ reqs[s].pc = "rename_tag"
    /\ tags' = IF Strip(reqs[s].name) # reqs[s].loaded
               THEN [tags EXCEPT ![reqs[s].tid].name = Strip(reqs[s].name)]
               ELSE tags
    /\ reqs' = Remove(reqs, {s})
    /\ last' = CallBy(reqs[s].uid, "update_tag", reqs[s].tid, "ok", <<>>)
    /\ UNCHANGED <<tasks, reminders, nextTaskId, nextReminderId, now, dispatched, sweep,
                   task_tags, nextTagId>>
    /\ UNCHANGED <<calls, users, kafka, checker, stamps, todo>>

NextDup ==
    \/ \E s \in Slots : Step(CreateTagCheck(s))
    \/ \E s \in Slots : CreateTagInsert(s)
    \/ \E s \in Slots : Step(UpdateTagSelect(s))
    \/ \E s \in Slots : UpdateTagCheck(s)
    \/ \E s \in Slots : UpdateTagCommit(s)

SpecDup == Init /\ [][NextDup]_vars

----------------------------------------------------------------------------
(* list_tasks with its status and priority filters; the requests carry no  *)
(* tag_ids, due_from, due_to or search and keep the default sort           *)

Statuses == {"all", "pending", "completed", "overdue"}

\* overdue without the test of the completed flag
MatchesStatusByDateOnly(t, status, at) ==
    CASE status = "pending" -> ~t.completed
      [] status = "completed" -> t.completed
      [] status = "overdue" -> t.due_date # None /\ t.due_date < at
      [] OTHER -> TRUE

\* "if status == "pending": ... elif status == "completed": ... elif status ==
\* "overdue": and_(Task.completed == False, Task.due_date < datetime.utcnow(),
\* Task.due_date.isnot(None))"; a comparison with NULL selects no row
MatchesStatus(t, status, at) ==
    CASE status = "pending" -> ~t.completed
      [] status = "completed" -> t.completed
      [] status = "overdue" -> ~t.completed /\ t.due_date # None /\ t.due_date < at
      [] OTHER -> TRUE

\* "if priority: statement = statement.where(Task.priority == priority)"
MatchesPriority(t, priority) == TruthyStr(priority) => t.priority = priority

\* "sort_by: str = Query("created_at", ...)", "sort_order: str = Query("desc", ...)"
Sort(by, order) == [by |-> by, order |-> order]
DefaultSort == Sort("created_at", "desc")

\* priority is a text column: its values in the order the store compares them
PriorityRank(p) ==
    CASE p = "high" -> 1 [] p = "low" -> 2 [] p = "medium" -> 3 [] p = "none" -> 4 [] OTHER -> 5

\* "sort_column = getattr(Task, sort_by)": the value a row is sorted by.  A
\* task created later has the later created_at, as the id has
SortKey(tid, by) ==
    CASE by = "due_date" -> tasks[tid].due_date
      [] by = "priority" -> PriorityRank(tasks[tid].priority)
      [] OTHER -> tid

\* the sort column of the row is NULL: where such rows go is the store's choice
NullKey(tid, by) == by = "due_date" /\ tasks[tid].due_date = None

\* rows that tie on the sort column come out lowest id first
IdBreaksTies(q, by) ==
    \A i, j \in DOMAIN q : (i < j /\ SortKey(q[i], by) = SortKey(q[j], by)) => q[i] < q[j]

\* "statement.order_by(sort_column.desc())" / "statement.order_by(sort_column.asc())"
\* and nothing else: the statement orders by that one column, and the order
\* of rows that tie on it is whatever the store yields.  The sequences the
\* store may answer for the selected rows S
Orderings(S, srt) ==
    {q \in [1..Cardinality(S) -> S] :
        /\ \A i, j \in DOMAIN q : i # j => q[i] # q[j]
        /\ \A i, j \in DOMAIN q :
              (i < j /\ ~NullKey(q[i], srt.by) /\ ~NullKey(q[j], srt.by))
                  => IF srt.order = "desc"
                     THEN SortKey(q[i], srt.by) >= SortKey(q[j], srt.by)
                     ELSE SortKey(q[i], srt.by) <= SortKey(q[j], srt.by)}

\* GET /{user_id}/tasks, for requests that sort as one of sorts
ListTasks(sorts) ==
    \E uid \in users, status \in Statuses, priority \in {NoPattern, "high"}, srt \in sorts :
        /\ \E q \in Orderings({tid \in DOMAIN tasks :
                                  /\ tasks[tid].user_id = uid
                                  /\ MatchesStatus(tasks[tid], status, now)
                                  /\ MatchesPriority(tasks[tid], priority)}, srt) :
               LET answer == IF \A i \in DOMAIN q : get_task_with_tags(tasks[q[i]], "ok") = "ok"
                             THEN "ok" ELSE "error"
               IN last' = [CallBy(uid, "list_tasks", 0, answer, <<>>)
                             EXCEPT !.query = [Query(status, priority) EXCEPT !.sort_by = srt.by,
                                                                              !.sort_order = srt.order],
                                    !.ids = IF answer = "ok" THEN q ELSE <<>>]
        /\ UNCHANGED <<tasks, reminders, nextTaskId, nextReminderId, now, dispatched, reqs, sweep,
                       tags, task_tags, nextTagId>>

list_tasks == ListTasks({DefaultSort})

ListInputs ==
    { CreateInput(None, None, FALSE, NoPattern),
      CreateInput(Lead, None, FALSE, NoPattern),
      [CreateInput(Lead, None, FALSE, NoPattern) EXCEPT !.priority = "high"],
      CreateInput(D1, None, FALSE, NoPattern) }

NextList ==
    \/ register
    \/ Step(CreateTask(ListInputs, MaxTasks))
    \/ Step(ToggleComplete(MaxTasks))
    \/ Free(AdvanceClock)
    \/ Step(list_tasks)

SpecList == Init /\ [][NextList]_vars

Sorts == {Sort(by, order) : by \in {"created_at", "due_date", "priority"}, order \in {"asc", "desc"}}

SortInputs ==
    { [CreateInput(D1, None, FALSE, NoPattern) EXCEPT !.priority = "high"],
      [CreateInput(D2, None, FALSE, NoPattern) EXCEPT !.priority = "high"],
      [CreateInput(D1, None, FALSE, NoPattern) EXCEPT !.priority = "low"] }

NextSort ==
    \/ Step(CreateTask(SortInputs, MaxTasks))
    \/ Step(ListTasks(Sorts))

SpecSort == Init /\ [][NextSort]_vars

----------------------------------------------------------------------------
(* Reminders sent and read: the sweeper, the poll and the read routes *)

NextRead ==
    \/ Step(CreateTask(LifeInputs, MaxTasks))
    \/ Step(delete_task)
    \/ Step(SweeperTick)
    \/ Step(get_due_reminders)
    \/ Step(mark_reminder_read)
    \/ Step(mark_all_reminders_read)
    \/ Free(AdvanceClock)

SpecRead == Init /\ [][NextRead]_vars

----------------------------------------------------------------------------
(* Two owners with tasks, tags, links, reminders and follow-ups *)

OwnInputs == { [CreateInput(D1, Lead, TRUE, "daily") EXCEPT !.tag_ids = <<1, 2>>] }

OwnPatches == { [NoPatch EXCEPT !.tag_ids = {<<2, 1>>}], Patch({}, D2, None) }

NextOwn ==
    \/ register
    \/ Step(create_tag)
    \/ Step(CreateTask(OwnInputs, MaxTasks))
    \/ Step(UpdateTask(OwnPatches))
    \/ Step(ToggleComplete(MaxTasks))
    \/ Step(delete_task)
    \/ Step(delete_tag)
    \/ Step(delete_reminder)
    \/ Step(AccessDenied)

SpecOwn == Init /\ [][NextOwn]_vars

----------------------------------------------------------------------------
(* The command-line task manager (src/src/todo_manager.py): a list of      *)
(* task dictionaries and a counter, both module globals.  todo.issued is   *)
(* history: the ids generate_next_id has returned, in order; created_at,   *)
(* a reading of the wall clock, is left out of the dictionaries            *)

\* the variables of the web backend
backend ==
    <<tasks, reminders, nextTaskId, nextReminderId, now, last, dispatched, reqs, sweep, calls,
      users, tags, task_tags, nextTagId, kafka, checker, stamps>>

\* validate_title: "cleaned = title.strip(); if not cleaned: return (False, ...);
\* if len(cleaned) > 200: return (False, ...); return (True, cleaned, "")"
validate_title(title) ==
    LET cleaned == Strip(title)
    IN IF cleaned = <<>> \/ Len(cleaned) > CliTitleMax
       THEN [is_valid |-> FALSE, cleaned |-> <<>>]
       ELSE [is_valid |-> TRUE, cleaned |-> cleaned]

\* validate_description: the text stripped and cut to 1000 characters
validate_description(description) ==
    LET cleaned == Strip(description)
    IN IF Len(cleaned) > CliDescriptionMax THEN SubSeq(cleaned, 1, CliDescriptionMax) ELSE cleaned

\* a counter that is returned and not incremented
generate_same_id(n) == [current_id |-> n, next_id |-> n]

\* "current_id = next_id; next_id += 1; return current_id", for next_id = n
generate_next_id(n) == [current_id |-> n, next_id |-> n + 1]

\* "for task in tasks: if task["id"] == task_id: return task", as the position
\* of the task in the list, 0 for None
find_task_by_id(task_id) ==
    LET hits == {i \in DOMAIN todo.tasks : todo.tasks[i].id = task_id}
    IN IF hits = {} THEN 0 ELSE CHOOSE i \in hits : \A j \in hits : i <= j

\* the result of a call and the globals it leaves unchanged
TodoFails(op) == todo' = [todo EXCEPT !.result = [op |-> op, ok |-> FALSE, id |-> 0]]

TodoTitles == { <<" ", "b">>, <<" ">>, Run("a", CliTitleMax + 1) }
TodoTexts == { <<"d", " ">> }

add_task ==
    \E title \in TodoTitles, description \in TodoTexts :
        /\ IF ~validate_title(title).is_valid
           THEN TodoFails("add_task")
           ELSE LET g == generate_next_id(todo.next_id)
                    task == [id |-> g.current_id,
                             title |-> validate_title(title).cleaned,
                             description |-> validate_description(description),
                             completed |-> FALSE]
                IN /\ todo.next_id <= MaxIds
                   /\ todo' = [tasks |-> Append(todo.tasks, task),
                               next_id |-> g.next_id,
                               issued |-> Append(todo.issued, g.current_id),
                               result |-> [op |-> "add_task", ok |-> TRUE, id |-> g.current_id]]
        /\ UNCHANGED backend

\* update_task of todo_manager; NoText stands for an argument left at None
todo_update_task ==
    \E task_id \in 1..MaxIds, new_title \in {NoText, <<"c", " ">>, <<" ">>},
       new_description \in {NoText, <<"e">>} :
        /\ LET i == find_task_by_id(task_id)
           IN IF i = 0 \/ (new_title # NoText /\ ~validate_title(new_title).is_valid)
              THEN TodoFails("update_task")
              ELSE todo' = [todo EXCEPT
                       !.tasks[i].title =
                           IF new_title # NoText THEN validate_title(new_title).cleaned ELSE @,
                       !.tasks[i].description =
                           IF new_description # NoText
                           THEN validate_description(new_description) ELSE @,
                       !.result = [op |-> "update_task", ok |-> TRUE, id |-> task_id]]
        /\ UNCHANGED backend

\* delete_task of todo_manager: "tasks.remove(task)" removes the first
\* element of the list that equals the task found
todo_delete_task ==
    \E task_id \in 1..MaxIds :
        /\ LET i == find_task_by_id(task_id)
               k == CHOOSE j \in DOMAIN todo.tasks :
                        /\ todo.tasks[j] = todo.tasks[i]
                        /\ \A h \in 1..(j - 1) : todo.tasks[h] # todo.tasks[i]
           IN IF i = 0
              THEN TodoFails("delete_task")
              ELSE todo' = [todo EXCEPT
                       !.tasks = SubSeq(@, 1, k - 1) \o SubSeq(@, k + 1, Len(@)),
                       !.result = [op |-> "delete_task", ok |-> TRUE, id |-> task_id]]
        /\ UNCHANGED backend

\* toggle_complete of todo_manager: "task["completed"] = not task["completed"]"
todo_toggle_complete ==
    \E task_id \in 1..MaxIds :
        /\ LET i == find_task_by_id(task_id)
           IN IF i = 0
              THEN TodoFails("toggle_complete")
              ELSE todo' = [todo EXCEPT
                       !.tasks[i].completed = ~@,
                       !.result = [op |-> "toggle_complete", ok |-> TRUE, id |-> task_id]]
        /\ UNCHANGED backend

NextTodo ==
    \/ add_task
    \/ todo_update_task
    \/ todo_delete_task
    \/ todo_toggle_complete

SpecTodo == Init /\ [][NextTodo]_vars

----------------------------------------------------------------------------
(* Tasks with tags *)

TagInput(m, ids) ==
    [CreateInput(D1, m, TRUE, "daily") EXCEPT !.title = <<" ", "b">>, !.description = <<"d">>,
                                              !.priority = "high", !.tag_ids = ids]

TagInputs ==
    { TagInput(Lead, <<>>), TagInput(Lead, <<1>>), TagInput(None, <<1, 2>>), TagInput(0, <<1>>) }

TagPatches == { [NoPatch EXCEPT !.tag_ids = {<<>>}], [NoPatch EXCEPT !.tag_ids = {<<2>>}] }

NextTags ==
    \/ Step(create_tag)
    \/ Step(delete_tag)
    \/ Step(CreateTask(TagInputs, MaxTasks))
    \/ Step(UpdateTask(TagPatches))
    \/ Step(ToggleComplete(MaxTasks))
    \/ Step(delete_task)
    \/ Step(SweeperTick)
    \/ Step(AdvanceClock)

SpecTags == Init /\ [][NextTags]_vars

----------------------------------------------------------------------------
(* Properties *)

Unsent(tid) == UnsentOf(reminders, tid)

\* C1: in every state reached by calls that run one after the other, every
\* task has at most one reminder with sent = false.
C1_AtMostOneUnsentReminder ==
    \A tid \in 1..MaxTasks : Cardinality(Unsent(tid)) <= 1

\* an update_task has replaced the reminder create_task made by a new one
C1_ReminderReplaced ==
    /\ last.op = "update_task" /\ last.status = "ok" /\ TouchesReminder(last.patch)
    /\ nextReminderId = 3
    /\ DOMAIN reminders = {2}
    /\ reminders[2].task_id = last.task
    /\ reminders[2].remind_at = D2 - Lead

\* the task's unsent reminders are what its due date and lead time ask for
ReminderMatches(tks, rems, tid) ==
    /\ UnsentOf(rems, tid) # {} <=> (tks[tid].due_date # None /\ tks[tid].reminder_minutes # None)
    /\ \A r \in UnsentOf(rems, tid) :
           rems[r].remind_at = tks[tid].due_date - tks[tid].reminder_minutes

\* C2: after create_task, and after an update_task that supplies due_date or
\* reminder_minutes, the task has an unsent reminder iff due_date and
\* reminder_minutes are both set (0 included), at due_date - reminder_minutes;
\* an update that changes due_date replaces the previous unsent reminder.
C2_ReminderIffDueDateAndLeadTime ==
    [][ (/\ last'.op \in {"create_task", "update_task"}
         /\ last'.status = "ok"
         /\ last'.op = "update_task" => TouchesReminder(last'.patch))
        => /\ ReminderMatches(tasks', reminders', last'.task)
           /\ last'.op = "update_task"
                 /\ tasks'[last'.task].due_date # tasks[last'.task].due_date
              => \A r \in Unsent(last'.task) : r \notin DOMAIN reminders' ]_vars

\* the sent_at a reminder row carries, None when it carries none
SentAt(row) == IF "sent_at" \in DOMAIN row THEN row.sent_at ELSE None

\* the reminder is due and its task exists
Overdue(r) ==
    /\ r \in DOMAIN reminders
    /\ reminders[r].remind_at <= now
    /\ reminders[r].task_id \in DOMAIN tasks

\* C3: for every reminder whose remind_at has passed and whose task still
\* exists, a reminder.due notification is dispatched exactly once: eventually
\* one, never more than one.
C3_DueReminderDispatchedExactlyOnce ==
    \A r \in 1..MaxReminders :
        /\ Overdue(r) ~> (dispatched[r] = 1 \/ ~Overdue(r))
        /\ [](dispatched[r] <= 1)

\* C4: a sweeper tick at a time >= remind_at, for an unsent reminder whose
\* task exists, marks it sent with sent_at equal to the tick time and emits
\* exactly one reminder.due event for it; a tick emits nothing for any other
\* reminder, so every later tick emits nothing for that reminder.
C4_TickMarksSentAndEmitsOnce ==
    [][ last'.op = "sweeper_tick"
        => \A r \in DOMAIN reminders :
              IF ~reminders[r].sent /\ Overdue(r)
              THEN /\ r \in DOMAIN reminders'
                   /\ reminders'[r].sent
                   /\ SentAt(reminders'[r]) = now
                   /\ dispatched'[r] = dispatched[r] + 1
              ELSE dispatched'[r] = dispatched[r] ]_vars

\* C5: when the polling route runs between a sweeper tick's select and its
\* commit, each due unsent reminder of the tick whose task exists is sent
\* when the tick ends, a sent_at once written is never overwritten, and at
\* most one reminder.due event is emitted per reminder.
C5_PollAndTickMarkSentOnce ==
    [][ /\ \A r \in DOMAIN reminders \cap DOMAIN reminders' :
               SentAt(reminders[r]) # None => SentAt(reminders'[r]) = SentAt(reminders[r])
        /\ \A r \in DOMAIN dispatched : dispatched'[r] <= 1
        /\ (sweep.pc = "loop" /\ sweep'.pc = "idle" /\ sweep.polled)
           => \A r \in DOMAIN sweep.batch \cap DOMAIN reminders' :
                  reminders'[r].task_id \in DOMAIN tasks' => reminders'[r].sent ]_vars

\* two update_task requests on task tid, each supplying due_date or
\* reminder_minutes, have both loaded the task and neither has committed; no
\* other request is on its way
UpdatesOverlap(tid) ==
    /\ DOMAIN reqs = Slots
    /\ \A s \in Slots : /\ At(s, "update_task", "commit")
                        /\ reqs[s].tid = tid
                        /\ TouchesReminder(reqs[s].patch)

\* C6: when two update_task requests on the same task, each supplying
\* due_date or reminder_minutes, overlap on a task that has at most one
\* unsent reminder, then however their commits interleave the task has at
\* most one unsent reminder whenever no request is on its way afterwards.
C6_OverlappingUpdatesLeaveOneUnsent ==
    \A tid \in 1..MaxTasks :
        []((UpdatesOverlap(tid) /\ Cardinality(Unsent(tid)) <= 1)
              => [](reqs = <<>> => Cardinality(Unsent(tid)) <= 1))

\* C7: a task with parent_task_id = t comes into being only in a
\* toggle_complete call that moves t from incomplete to complete while t is
\* recurring; no call makes an existing task a follow-up.
C7_FollowUpOnlyOnCompletion ==
    [][ /\ \A c \in DOMAIN tasks' \ DOMAIN tasks :
               tasks'[c].parent_task_id # None
               => /\ last'.op = "toggle_complete"
                  /\ last'.task = tasks'[c].parent_task_id
                  /\ last'.task \in DOMAIN tasks
                  /\ ~tasks[last'.task].completed
                  /\ tasks'[last'.task].completed
                  /\ tasks[last'.task].is_recurring
        /\ \A c \in DOMAIN tasks' \cap DOMAIN tasks :
               tasks'[c].parent_task_id = tasks[c].parent_task_id ]_vars

\* a follow-up task exists, made by the toggle that ran last
C7_FollowUpCreated ==
    /\ last.op = "toggle_complete" /\ last.spawned \in DOMAIN tasks
    /\ tasks[last.spawned].parent_task_id = last.task
    /\ tasks[last.task].completed

\* C8: two consecutive toggle_complete calls on a task return its completed
\* flag to the value it had, and at most one of the two creates a follow-up.
C8_TwoTogglesRestore ==
    [][ (/\ last.op = "toggle_complete" /\ last.status = "ok"
         /\ last'.op = "toggle_complete" /\ last'.status = "ok"
         /\ last'.task = last.task)
        => /\ tasks'[last.task].completed = last.before
           /\ ~(last.spawned # 0 /\ last'.spawned # 0) ]_vars

\* a recurring task was toggled twice in a row and has a follow-up
C8_ToggledTwice ==
    /\ last.op = "toggle_complete" /\ last.status = "ok" /\ last.twice
    /\ tasks[last.task].is_recurring
    /\ \E c \in DOMAIN tasks : tasks[c].parent_task_id = last.task

\* C9: toggle_complete emits one task.completed event when the call moves
\* the task from incomplete to complete, and none when it moves it back.
C9_CompletedEventOnlyOnCompletion ==
    [][ (last'.op = "toggle_complete" /\ last'.status = "ok")
        => last'.events =
             IF ~tasks[last'.task].completed /\ tasks'[last'.task].completed
             THEN <<Event("task.completed", last'.task)>>
             ELSE <<>> ]_vars

\* a toggle has moved a task back to incomplete without an event
C9_ToggledBackSilently ==
    /\ last.op = "toggle_complete" /\ last.status = "ok"
    /\ last.before /\ ~tasks[last.task].completed
    /\ last.events = <<>>

\* C10 as stated: the completed flag of an existing task changes only in a
\* toggle_complete call on it, which flips it.
C10_OnlyToggleChangesCompleted ==
    [][ \A t \in DOMAIN tasks \cap DOMAIN tasks' :
           /\ tasks'[t].completed # tasks[t].completed
              => last'.op = "toggle_complete" /\ last'.task = t
           /\ (last'.op = "toggle_complete" /\ last'.status = "ok" /\ last'.task = t)
              => tasks'[t].completed = ~tasks[t].completed ]_vars

\* the call found its task and committed: it answered with the task, or with
\* 500 because the stored row does not pass the response schema
Wrote(c) == c.status \in {"ok", "error"}

\* C10 amended: the completed flag of an existing task changes only in a
\* toggle_complete, update_task or tool-server complete_task call that found
\* that task: the toggle flips it, update_task stores the value its patch
\* supplies (and keeps the flag when it supplies none), complete_task sets it.
C10_CompletedChangesOnlyOnRequest ==
    [][ \A t \in DOMAIN tasks \cap DOMAIN tasks' :
           /\ tasks'[t].completed # tasks[t].completed
              => /\ last'.task = t /\ Wrote(last')
                 /\ last'.op \in {"toggle_complete", "update_task", "handle_complete_task"}
           /\ (last'.op = "toggle_complete" /\ Wrote(last') /\ last'.task = t)
              => tasks'[t].completed = ~tasks[t].completed
           /\ (last'.op = "update_task" /\ Wrote(last') /\ last'.task = t)
              => tasks'[t].completed = IF last'.patch.completed = {} THEN tasks[t].completed
                                       ELSE TRUE \in last'.patch.completed
           /\ (last'.op = "handle_complete_task" /\ last'.status = "ok" /\ last'.task = t)
              => tasks'[t].completed ]_vars

\* update_task has completed a task that was incomplete
C10_CompletedByUpdate ==
    /\ last.op = "update_task" /\ last.status = "ok"
    /\ ~last.before /\ tasks[last.task].completed

\* the call a step makes is a successful toggle_complete that completes task tid
Completes(tid) ==
    /\ last'.op = "toggle_complete" /\ last'.status = "ok" /\ last'.task = tid
    /\ tid \in DOMAIN tasks /\ ~tasks[tid].completed

\* C11: completing a recurring task that has an end date E spawns a follow-up
\* iff the next due date is <= E (for a daily task: due date + 1 day <= E);
\* the follow-up carries the same pattern and end date, so a daily series due
\* at T with E = T + 2 days yields T + 1 day, T + 2 days and then nothing.
C11_FollowUpIffWithinEndDate ==
    [][ \A tid \in DOMAIN tasks :
          LET t == tasks[tid]
              E == t.recurrence_end_date
          IN (/\ Completes(tid)
              /\ t.is_recurring /\ TruthyStr(t.recurrence_pattern)
              /\ t.due_date # None /\ E # None)
             => /\ last'.spawned # 0 <=> NextDue(t) <= E
                /\ t.recurrence_pattern = "daily"
                   => (last'.spawned # 0 <=> t.due_date + Day <= E)
                /\ last'.spawned # 0
                   => /\ tasks'[last'.spawned].due_date <= E
                      /\ tasks'[last'.spawned].recurrence_end_date = E
                      /\ tasks'[last'.spawned].recurrence_pattern = t.recurrence_pattern ]_vars

\* the daily series due at D1 that ends at D1 + 2 days has been completed to
\* its end: three tasks, and completing the third made no fourth
C11_SeriesEnded ==
    /\ DOMAIN tasks = {1, 2, 3} /\ nextTaskId = 4
    /\ \A i \in {1, 2, 3} :
           /\ tasks[i].completed /\ tasks[i].recurrence_pattern = "daily"
           /\ tasks[i].due_date = D1 + (i - 1) * Day
           /\ tasks[i].recurrence_end_date = D1 + 2 * Day
    /\ tasks[2].parent_task_id = 1 /\ tasks[3].parent_task_id = 2
    /\ last.op = "toggle_complete" /\ last.task = 3 /\ last.spawned = 0

\* C12: the follow-up's due date is the source's due date plus 1 day (daily),
\* 7 days (weekly), 30 days (monthly), 365 days (yearly) or recurrence_interval
\* days (custom); a task that is not recurring or has no due date gets no
\* follow-up.
C12_FollowUpDueDateByPattern ==
    [][ \A tid \in DOMAIN tasks :
          LET t == tasks[tid]
              pat == t.recurrence_pattern
          IN Completes(tid)
             => /\ last'.spawned # 0
                   => /\ pat \in {"daily", "weekly", "monthly", "yearly", "custom"}
                      /\ pat = "custom" => t.recurrence_interval # None
                      /\ tasks'[last'.spawned].due_date =
                             t.due_date + Day * (CASE pat = "daily" -> 1
                                                   [] pat = "weekly" -> 7
                                                   [] pat = "monthly" -> 30
                                                   [] pat = "yearly" -> 365
                                                   [] OTHER -> t.recurrence_interval)
                /\ (~t.is_recurring \/ t.due_date = None) => last'.spawned = 0 ]_vars

TagsOf(links, tid) == {l.tag_id : l \in LinksOf(links, tid)}

\* C13: the follow-up created when a recurring task is completed has the
\* source's owner, title, description, priority, reminder_minutes, recurrence
\* pattern, interval and end date, completed = false, parent_task_id = the
\* source's id, the source's tag set, and exactly one unsent reminder at
\* due_date - reminder_minutes when both are set (and none otherwise).
C13_FollowUpCopiesSource ==
    [][ \A tid \in DOMAIN tasks :
          Completes(tid) /\ last'.spawned # 0
          => LET t == tasks[tid]
                 c == last'.spawned
                 n == tasks'[c]
             IN /\ c \notin DOMAIN tasks
                /\ n.user_id = t.user_id /\ n.title = t.title
                /\ n.description = t.description /\ n.priority = t.priority
                /\ n.reminder_minutes = t.reminder_minutes
                /\ n.recurrence_pattern = t.recurrence_pattern
                /\ n.recurrence_interval = t.recurrence_interval
                /\ n.recurrence_end_date = t.recurrence_end_date
                /\ ~n.completed /\ n.parent_task_id = tid
                /\ TagsOf(task_tags', c) = TagsOf(task_tags', tid)
                /\ IF n.due_date # None /\ n.reminder_minutes # None
                   THEN \E r \in DOMAIN reminders' :
                           /\ UnsentOf(reminders', c) = {r}
                           /\ reminders'[r].remind_at = n.due_date - n.reminder_minutes
                   ELSE UnsentOf(reminders', c) = {} ]_vars

\* C14: after delete_task succeeds on a task no reminder and no link
\* references it, after delete_tag succeeds on a tag no link references it,
\* and so every reminder references a task that exists and every link a task
\* and a tag that exist.
C14_DeleteCascades ==
    [][ /\ (last'.op = "delete_task" /\ last'.status = "ok")
           => /\ \A r \in DOMAIN reminders' : reminders'[r].task_id # last'.task
              /\ LinksOf(task_tags', last'.task) = {}
        /\ (last'.op = "delete_tag" /\ last'.status = "ok")
           => \A l \in task_tags' : l.tag_id # last'.task
        /\ \A r \in DOMAIN reminders' : reminders'[r].task_id \in DOMAIN tasks'
        /\ \A l \in task_tags' : l.task_id \in DOMAIN tasks' /\ l.tag_id \in DOMAIN tags' ]_vars

\* the row a request names, as it was before the request, and its owner
Targets(op, id) ==
    IF op \in TaskRoutes THEN {tasks[t].user_id : t \in {id} \cap DOMAIN tasks}
    ELSE IF op \in TagRoutes THEN {tags[g].user_id : g \in {id} \cap DOMAIN tags}
    ELSE IF op \in ReminderRoutes THEN {reminders[r].user_id : r \in {id} \cap DOMAIN reminders}
    ELSE {}

\* C15: a get, update, delete or toggle request naming a task, tag or reminder
\* whose owner is not the authenticated user fails with NotFound, not with
\* access-denied or any other error, and leaves the store unchanged.
C15_ForeignRowIsNotFound ==
    [][ (\E o \in Targets(last'.op, last'.task) : o # last'.caller)
        => /\ last'.status = "not_found"
           /\ UNCHANGED <<tasks, reminders, tags, task_tags>> ]_vars

SinkRoutes == {"create_task", "update_task", "toggle_complete", "delete_task"}

\* C16: a failure of the event sink during create_task, update_task,
\* toggle_complete or delete_task is never returned to the caller and changes
\* neither the result nor the persisted state.  create_task, update_task and
\* toggle_complete have committed their writes when they start to publish,
\* and when the publishing has failed they answer ok and leave the store as
\* it is; delete_task deletes the task after the publishing has failed, as it
\* does after it has succeeded.
C16_SinkFailureIsSwallowed ==
    [][ /\ (last'.op \in SinkRoutes /\ last'.status = "running" /\ last'.events # <<>>)
            => LET tid == last'.task
               IN /\ last'.op = "create_task" => tid \in DOMAIN tasks' \ DOMAIN tasks
                  /\ last'.op = "update_task"
                     => tasks'[tid] = ApplyPatch(tasks[tid], last'.patch)
                  /\ last'.op = "toggle_complete"
                     => tasks'[tid].completed = ~tasks[tid].completed
        /\ (last'.op \in SinkRoutes /\ last'.status # "running" /\ last'.events # <<>>
               /\ kafka = "down")
            => LET tid == last'.task
               IN /\ last'.op \in {"create_task", "update_task", "toggle_complete"}
                     => /\ last'.status = "ok"
                        /\ UNCHANGED <<tasks, reminders, task_tags>>
                  /\ last'.op = "delete_task"
                     => \/ last'.status = "ok" /\ tid \notin DOMAIN tasks'
                        \/ last'.status = "error" /\ Referencing(tid) /\ tasks' = tasks ]_vars

\* a toggle_complete that was suspended in send_and_wait is answered after
\* the publishing has failed, while a delete_task on the same task is
\* suspended in its own
C16_AnsweredWhileSinkDown ==
    /\ kafka = "down"
    /\ last.op = "toggle_complete" /\ last.status = "ok" /\ last.events # <<>>
    /\ tasks[last.task].completed
    /\ \E s \in DOMAIN reqs : reqs[s].pc = "publish" /\ reqs[s].tid = last.task

\* the loop tasks that have not finished, and those that can still run a tick
Alive == {i \in 1..Len(checker.loops) : checker.loops[i] # "done"}
Ticking == {i \in 1..Len(checker.loops) : checker.loops[i] \in {"new", "sleeping"}}

\* C18 as stated: start while running is a no-op, and under any interleaving
\* of start and stop calls at most one check loop is alive (not finished) at
\* any time.
C18_AtMostOneLoopAlive ==
    /\ [][last'.op = "start" /\ checker.running => checker' = checker]_vars
    /\ [](Cardinality(Alive) <= 1)

\* C18 amended: start while running is a no-op, and at most one check loop
\* that can still run a tick exists at any time; every other unfinished loop
\* has been cancelled and ends without running a tick.
C18_AtMostOneLoopTicking ==
    /\ [][last'.op = "start" /\ checker.running => checker' = checker]_vars
    /\ [](Cardinality(Ticking) <= 1 /\ Ticking \subseteq {checker.task})
    /\ [][\A i \in Alive : checker.loops[i] = "cancelling" /\ checker'.loops[i] # "cancelling"
              => checker'.loops[i] = "done" /\ last'.op # "sweeper_tick"]_vars

\* a start issued while a stop waits: the old loop cancelled and not yet
\* finished, the new loop created
C18_StartDuringStop ==
    /\ last.op = "start" /\ last.status = "ok"
    /\ checker.stops # <<>>
    /\ Cardinality(Alive) = 2
    /\ Cardinality(Ticking) = 1

\* C19: stop returns only after the loop it cancelled has exited; once a stop
\* has returned and start has not been called since, no loop is left that
\* can run a tick; and every stop call returns.
C19_StopWaitsAndTerminates ==
    /\ [][last'.op = "stop" /\ last'.status = "ok" /\ last'.task # 0
            => checker'.loops[last'.task] = "done"]_vars
    /\ [](checker.halted => ~checker.running /\ Ticking = {})
    /\ [][last'.op = "sweeper_tick" => ~checker.halted]_vars
    /\ \A s \in 1..MaxStops : (s \in DOMAIN checker.stops) ~> (s \notin DOMAIN checker.stops)

\* a stop that waited for a sleeping loop has returned, and a second stop
\* right after it
C19_StoppedTwice ==
    /\ checker.halted
    /\ checker.task = 1 /\ checker.loops = <<"done">>
    /\ sweep.batch # <<>>
    /\ last.op = "stop" /\ last.status = "ok" /\ last.task = 1
    /\ checker.stops = <<>>

\* stop and the loops it has cancelled leave the ticks whole: stop writes
\* nothing, every tick is run from its select to its end, in one step, by a
\* loop that is not cancelled and is back in its sleep afterwards, and a
\* cancelled loop ends without running a tick
TicksStayWhole ==
    /\ [][last'.op = "stop" => UNCHANGED <<reminders, dispatched, sweep>>]_vars
    /\ [][last'.op = "sweeper_tick"
            => \E i \in 1..Len(checker.loops) :
                   /\ checker.loops[i] \in {"new", "sleeping"}
                   /\ checker'.loops[i] = "sleeping"
                   /\ \A k \in 1..Len(checker.loops) \ {i} :
                          checker'.loops[k] = checker.loops[k]]_vars
    /\ [][\A i \in 1..Len(checker.loops) :
              checker.loops[i] = "cancelling"
                  => /\ checker'.loops[i] \in {"cancelling", "done"}
                     /\ checker'.loops[i] = "done"
                            => /\ last'.op = "check_loop" /\ last'.status = "cancelled"
                               /\ UNCHANGED <<reminders, dispatched, sweep>>]_vars

\* no reminder.due event has gone out for a reminder that is not stored as sent
NoEventForUnsent ==
    [](\A r \in DOMAIN dispatched :
           dispatched[r] > 0 => r \in DOMAIN reminders /\ reminders[r].sent)

C21_LoopSurvivesTickError ==
    \A b \in BOOLEAN :
        (last.op = "sweeper_tick" /\ last.status = "error" /\ checker.beat = b)
            ~> (checker.beat # b \/ ~checker.running)

\* the same loop has run a tick after a tick that raised, with no stop at all
C21_TickAfterError ==
    /\ checker.errs = 2
    /\ checker.running /\ checker.loops = <<"sleeping">>
    /\ last.op = "sweeper_tick" /\ last.status = "error"

\* C22: every persisted task that is recurring has a recurrence pattern, and
\* every persisted task whose pattern is "custom" has an interval of at least
\* one; create_task and update_task reject any input that would break this.
C22_RecurrenceFieldsConsistent ==
    \A tid \in DOMAIN tasks :
        /\ tasks[tid].is_recurring => tasks[tid].recurrence_pattern # NoPattern
        /\ tasks[tid].recurrence_pattern = "custom" => tasks[tid].recurrence_interval >= 1

\* C23: every stored task title, as stored after trimming, has between 1 and
\* 200 characters, and a create_task or update_task request that is rejected
\* stores nothing.
C23_StoredTitleLength ==
    [][ /\ \A tid \in DOMAIN tasks' :
              Len(tasks'[tid].title) >= 1 /\ Len(tasks'[tid].title) <= TitleMax
        /\ last'.status = "invalid" => UNCHANGED <<tasks, reminders, task_tags>> ]_vars

\* C24: a create_task or update_task given a list of tag ids, among them
\* ids of other users, unknown ids or repeated ids, succeeds and leaves the
\* task with exactly the supplied ids that are the caller's own tags, in
\* place of any previous tag set; an update_task without tag ids leaves the
\* tag set as it was.
C24_TagSetIsOwnSuppliedIds ==
    [][ LET tid == last'.task
        IN /\ (last'.op = "create_task" /\ last'.status # "invalid")
              => /\ last'.status = "ok"
                 /\ TagsOf(task_tags', tid) = OwnTags(tags, last'.caller, last'.ids)
           /\ (last'.op = "update_task" /\ last'.status \notin {"invalid", "not_found"})
              => IF last'.patch.tag_ids = {}
                 THEN TagsOf(task_tags', tid) = TagsOf(task_tags, tid)
                 ELSE /\ last'.status = "ok"
                      /\ TagsOf(task_tags', tid) =
                            OwnTags(tags, last'.caller, PatchIds(last'.patch)) ]_vars

\* C25: a task is created with updated_at equal to created_at, and every
\* later successful update_task or toggle_complete on it sets updated_at to
\* a value strictly greater than before.
C25_UpdatedAtAdvances ==
    [][ \A tid \in DOMAIN stamps'.rows :
          IF tid \notin DOMAIN stamps.rows
          THEN stamps'.rows[tid].updated_at = stamps'.rows[tid].created_at
          ELSE (last'.op \in {"update_task", "toggle_complete"} /\ last'.status = "ok"
                  /\ last'.task = tid)
               => stamps'.rows[tid].updated_at > stamps.rows[tid].updated_at ]_vars

\* the fields of a task row that a patch supplies
Supplied(p) ==
    {f \in {"title", "description"} : p[f] # NoText}
        \cup {f \in {"completed", "is_recurring"} : p[f] # {}}
        \cup {f \in {"priority", "recurrence_pattern"} : p[f] # NoPattern}
        \cup {f \in {"due_date", "reminder_minutes", "recurrence_interval",
                      "recurrence_end_date"} : p[f] # None}

\* C26: a successful update_task changes only the fields its patch supplies:
\* every other field of the task keeps its value, no other task is modified,
\* and when the patch supplies neither due_date nor reminder_minutes the
\* reminders are left as they were.
C26_UpdateChangesOnlySupplied ==
    [][ (last'.op = "update_task" /\ last'.status = "ok")
        => LET tid == last'.task
               p == last'.patch
           IN /\ DOMAIN tasks' = DOMAIN tasks
              /\ \A f \in DOMAIN tasks[tid] \ Supplied(p) : tasks'[tid][f] = tasks[tid][f]
              /\ \A o \in DOMAIN tasks \ {tid} : tasks'[o] = tasks[o]
              /\ (p.due_date = None /\ p.reminder_minutes = None) => reminders' = reminders ]_vars

\* an update that supplied a title only has trimmed and stored it, on a task
\* that keeps its description, due date and lead time
C26_TitleOnlyUpdated ==
    /\ last.op = "update_task" /\ last.status = "ok"
    /\ Supplied(last.patch) = {"title"}
    /\ tasks[last.task].title = <<"b">>
    /\ tasks[last.task].description = <<"d">>
    /\ tasks[last.task].due_date = D1 /\ tasks[last.task].reminder_minutes = Lead
    /\ UnsentOf(reminders, last.task) # {}

\* C27: create_task and update_task are atomic: a call that fails has left
\* none of its writes behind, so the tasks, the reminders and the tag links
\* are what they were before the call.
C27_FailedCallWritesNothing ==
    [][ (last'.op \in {"create_task", "update_task"}
            /\ last'.status \in {"error", "invalid", "not_found", "forbidden"})
        => (tasks' = tasks /\ reminders' = reminders /\ task_tags' = task_tags) ]_vars

\* C28: two overlapping toggle_complete requests on one task have the effect
\* of two toggles that follow each other: when the second of them has
\* committed, the flag is back at the value both found, and the two of them
\* have created at most one follow-up.
C28_OverlappingTogglesSerialize ==
    (last.op = "toggle_complete" /\ last.status = "ok" /\ last.twice)
        => (tasks[last.task].completed = last.before /\ last.spawned <= 1)

\* C29: no two tags of one owner carry the same name, also when create_tag
\* and update_tag requests overlap.
C29_TagNamesUniquePerOwner ==
    \A g, h \in DOMAIN tags :
        (g # h /\ tags[g].user_id = tags[h].user_id) => tags[g].name # tags[h].name

\* the ids a list_tasks response carries
Listed == {last.ids[i] : i \in DOMAIN last.ids}

\* C30: list_tasks with status=overdue returns exactly the caller's tasks that
\* are not completed and have a due date earlier than now (and pass the other
\* filters of the request): never a completed task, a task without due date
\* or a task of another owner.
C30_OverdueListIsExact ==
    (last.op = "list_tasks" /\ last.status = "ok" /\ last.query.status = "overdue")
        => /\ Len(last.ids) = Cardinality(Listed)
           /\ Listed = {tid \in DOMAIN tasks :
                            /\ tasks[tid].user_id = last.user
                            /\ tasks[tid].completed = FALSE
                            /\ tasks[tid].due_date # None
                            /\ tasks[tid].due_date < now
                            /\ (last.query.priority # NoPattern
                                    => tasks[tid].priority = last.query.priority)}

\* an overdue listing that returned one task and left out a completed task of
\* the caller whose due date has passed as well
C30_OverdueListedCompletedLeftOut ==
    /\ last.op = "list_tasks" /\ last.status = "ok" /\ last.query.status = "overdue"
    /\ Len(last.ids) = 1
    /\ \E o \in DOMAIN tasks :
           /\ tasks[o].user_id = last.user /\ tasks[o].completed
           /\ tasks[o].due_date # None /\ tasks[o].due_date < now

\* the task.deleted events a request emitted
DeletedEvents(c) == {i \in DOMAIN c.events : c.events[i].topic = "task.deleted"}

\* C31: delete_task emits task.deleted for a task whose row exists and removes
\* the row afterwards: a delete request for a missing task emits no event, and
\* a request that emitted the event has removed the task.
C31_DeletedEventThenRowRemoved ==
    [][ (last'.op = "delete_task" /\ last' # last)
        => /\ last'.status = "not_found" => DeletedEvents(last') = {}
           /\ DeletedEvents(last') # {}
                 => (last'.task \in DOMAIN tasks /\ last'.task \notin DOMAIN tasks') ]_vars

\* C32: a sweeper tick that finds a due unsent reminder whose task no longer
\* exists deletes that reminder and emits no reminder.due for it, and still
\* processes the other due reminders of the tick, which end up sent.
C32_OrphanDeletedRestProcessed ==
    [][ (last'.op = "sweeper_tick" /\ sweep'.batch = DueUnsent(reminders, now)
            /\ Orphans(sweep'.batch) # {})
        => \A r \in DOMAIN sweep'.batch :
              IF r \in Orphans(sweep'.batch)
              THEN /\ r \notin DOMAIN reminders'
                   /\ \A i \in DOMAIN last'.events :
                          last'.events[i].task_id # sweep'.batch[r].task_id
              ELSE r \in DOMAIN reminders' /\ reminders'[r].sent ]_vars

\* C33: list_tasks returns the tasks ordered by the sort field and direction
\* of the request, and tasks that tie on that field lowest id first.
C33_SortedWithIdTieBreak ==
    (last.op = "list_tasks" /\ last.status = "ok")
        => /\ \A i, j \in DOMAIN last.ids :
                 i < j => IF last.query.sort_order = "desc"
                          THEN SortKey(last.ids[i], last.query.sort_by)
                                   >= SortKey(last.ids[j], last.query.sort_by)
                          ELSE SortKey(last.ids[i], last.query.sort_by)
                                   <= SortKey(last.ids[j], last.query.sort_by)
           /\ IdBreaksTies(last.ids, last.query.sort_by)

\* the reminder row is marked read
IsRead(row) == "read" \in DOMAIN row /\ row.read

\* No stored reminder is ever read: "reminder.read = True" raises in
\* mark_reminder_read, and mark_all_reminders_read and the poll raise while
\* building "Reminder.read == False".  The states C34 speaks about (a reminder
\* with read = true) are therefore not reachable
ReminderNeverRead == \A r \in DOMAIN reminders : ~IsRead(reminders[r])

\* No stored reminder is ever sent: the tick raises at "reminder.sent_at = now"
\* before its commit and the poll raises while building its query, and
\* nothing else writes the flag.  The states C35 speaks about (a reminder with
\* sent = true) are therefore not reachable.
ReminderNeverSent == \A r \in DOMAIN reminders : ~reminders[r].sent

\* No reminder.due event is ever dispatched: the tick raises before its first
\* "await event_producer.reminder_due(...)".  The ticks C36 speaks about (a
\* tick that dispatched an event) are therefore not reachable.
NothingDispatched == \A r \in DOMAIN dispatched : dispatched[r] = 0

\* C37: each follow-up task has a due date strictly later than the due date
\* of its source task, so a chain of follow-ups with a recurrence_end_date
\* comes to an end.
C37_FollowUpDueStrictlyLater ==
    [][ \A c \in DOMAIN tasks' \ DOMAIN tasks :
            tasks'[c].parent_task_id # None
                => tasks'[c].due_date > tasks[tasks'[c].parent_task_id].due_date ]_vars

\* every reminder has the owner of its task, every follow-up the owner of its
\* parent, every link joins a task and a tag of one owner
OwnersAgree(tk, tg, rm, lk) ==
    /\ \A r \in DOMAIN rm :
           rm[r].task_id \in DOMAIN tk => rm[r].user_id = tk[rm[r].task_id].user_id
    /\ \A c \in DOMAIN tk :
           tk[c].parent_task_id \in DOMAIN tk => tk[c].user_id = tk[tk[c].parent_task_id].user_id
    /\ \A l \in lk :
           (l.task_id \in DOMAIN tk /\ l.tag_id \in DOMAIN tg)
               => tk[l.task_id].user_id = tg[l.tag_id].user_id

\* the rows that do not belong to user u
RowsOfOthers(tk, tg, rm, lk, u) ==
    [tasks |-> {<<t, tk[t]>> : t \in {x \in DOMAIN tk : tk[x].user_id # u}},
     tags |-> {<<g, tg[g]>> : g \in {x \in DOMAIN tg : tg[x].user_id # u}},
     reminders |-> {<<r, rm[r]>> : r \in {x \in DOMAIN rm : rm[x].user_id # u}},
     links |-> {l \in lk : l.task_id \in DOMAIN tk /\ tk[l.task_id].user_id # u}]

\* C38: each reminder's user_id is the user_id of its task, each follow-up
\* has the owner of its parent, each link joins a task and a tag of the same
\* owner, and a request of one user leaves the tasks, tags, links and
\* reminders of every other user as they were.
C38_RowsStayWithTheirOwner ==
    [][ /\ OwnersAgree(tasks', tags', reminders', task_tags')
        /\ last'.caller \in Users
               => RowsOfOthers(tasks', tags', reminders', task_tags', last'.caller)
                      = RowsOfOthers(tasks, tags, reminders, task_tags, last'.caller) ]_vars

\* a follow-up with its reminder and the copied link, created for a task
\* whose tag list named a tag of the other user as well
C38_FollowUpBesideForeignTag ==
    /\ last.op = "toggle_complete" /\ last.spawned \in DOMAIN tasks
    /\ \E g \in DOMAIN tags : tags[g].user_id # last.user
    /\ \E l \in task_tags : l.task_id = last.spawned
    /\ \E r \in DOMAIN reminders : reminders[r].task_id = last.spawned

\* the reminders of task tid, by id
RemindersOf(rems, tid) == {<<r, rems[r]>> : r \in {x \in DOMAIN rems : rems[x].task_id = tid}}

\* C39: toggle_complete leaves the reminders of the toggled task as they are,
\* and a tick that finds the unsent reminder of a completed task due marks it
\* sent and dispatches it.
C39_CompletedTaskStillReminded ==
    [][ /\ last'.op = "toggle_complete"
           => RemindersOf(reminders', last'.task) = RemindersOf(reminders, last'.task)
        /\ (last'.op = "sweeper_tick" /\ sweep'.batch = DueUnsent(reminders, now))
           => \A r \in DOMAIN sweep'.batch \ Orphans(sweep'.batch) :
                 tasks[sweep'.batch[r].task_id].completed
                     => /\ reminders'[r].sent
                        /\ dispatched'[r] = dispatched[r] + 1 ]_vars

\* the ids of the tasks in the list of the command-line manager
TodoIds(td) == {td.tasks[i].id : i \in DOMAIN td.tasks}

\* C40: in the command-line task manager the ids of the tasks are unique and
\* strictly increasing in creation order, an id that was issued is never
\* issued again, also after its task was deleted, and an add_task that fails
\* consumes no id.
C40_IdsIncreaseAndAreNeverReused ==
    [][ /\ Cardinality(TodoIds(todo')) = Len(todo'.tasks)
        /\ \A i, j \in DOMAIN todo'.tasks : i < j => todo'.tasks[i].id < todo'.tasks[j].id
        /\ \A i, j \in DOMAIN todo'.issued : i < j => todo'.issued[i] < todo'.issued[j]
        /\ Len(todo'.issued) > Len(todo.issued)
               => todo'.issued[Len(todo'.issued)] \notin TodoIds(todo)
        /\ (todo'.result.op = "add_task" /\ ~todo'.result.ok)
               => (todo'.next_id = todo.next_id /\ todo'.issued = todo.issued) ]_vars

\* the third id was issued after the tasks with the first two were deleted
C40_AddedAfterDeletes ==
    /\ todo.result.op = "add_task" /\ todo.result.ok
    /\ todo.issued = <<1, 2, 3>>
    /\ TodoIds(todo) = {3}

====
